---------------------------- MODULE Spec2Model ----------------------------
(***************************************************************************)
(* A model of ralph: the client's package query and install pipeline       *)
(* (client/Functions.cpp, Parser::process), the promise side of the        *)
(* asynchronous task abstraction (clientlib/future/Promise.cpp) and the    *)
(* git driver's composite tasks (clientlib/git/GitRepo.cpp).               *)
(*                                                                         *)
(* The module holds several specifications over one set of variables; each *)
(* specification moves its own group of variables and leaves the others    *)
(* at their idle values.                                                   *)
(***************************************************************************)
EXTENDS Integers, Sequences, FiniteSets, TLC

(***************************************************************************)
(* Bounds of the model.                                                    *)
(***************************************************************************)
\* the versions a package may have are 1..MaxVersion
MaxVersion == 2
\* the number of package arguments of one install invocation
MaxArgs == 2
\* the number of progress/status reports one closure makes itself
MaxReports == 2
MaxChallenges == 2
MaxCommands == 3
MaxCode == 12
MaxTokens == 3

VARIABLES
    \* ---- install pipeline (State::installPackage under Parser::process)
    db,         \* the packages the database can find: a set of [name, version]
    args,       \* result.argumentMulti("packages"): a sequence of queries
    ipc,        \* position of the invocation: createDB, map, each, done
    resolved,   \* the packages map(queryPackage) has produced so far
    issued,     \* the packages whose install task has been issued, in order
    installOk,  \* per terminated install: whether its task finished without failure
    group,      \* the value of --group
    config,     \* the values of --config
    issuedWith, \* per issued install: the group and configuration it was given
    thrown,     \* the exception that left the handler ("none" while none)
    exitCode,   \* what Parser::process returned (meaningful when ipc = "done")
    \* ---- tasks: the shared BaseFutureData of each task and its worker
    d,          \* per task: state, progress, status, exception, delegateTo, watchers
    log,        \* per watcher: the notifications it has received, in order
    call,       \* per worker thread: the report call it is inside of
    wpc,        \* per task: where its worker is in its closure
    caught,     \* per task: its closure caught the failure of an awaited task
    reports,    \* per task: progress/status reports its own closure has made
    applied,    \* per task: number of updates made to its data under d->mutex
    late,       \* the observer attached after termination: its task and the state then
    ended,      \* per task: how its closure ended ("" while it has not)
    \* ---- git driver: the GitPayload of a task's library call
    payload,    \* per task: GitPayload::state (Initial, Fetching, CheckingOut)
    cb,         \* per task: the rest of the progress callback it is inside of
    cancel,     \* the cancellation flag of the root task, and when it was set
    \* ---- credentials: the challenges of the git library
    challenges, \* number of calls of GitRepo::credentialsCallback so far
    brokerCalls,\* number of calls of the registered broker so far
    query,      \* the GitCredentialQuery of the last challenge
    response,   \* the GitCredentialResponse the broker gave to it
    out,        \* *out of the last challenge ("unwritten" while not assigned)
    ret,        \* what the last call of credentialsCallback returned
    \* ---- the `sources` commands
    cmd,        \* the command that runs: list, add, update; idle, done
    scope,      \* the value of --database
    available,  \* the databases createDatabase yields (the others give null)
    sources,    \* per database: its sources (name, lastUpdated), in order
    todo,       \* what the running command has still to visit
    shown,      \* the lines written to the terminal
    sthrown,    \* the exception that left the handler ("none" while none)
    now,        \* the wall clock
    updatedOk,  \* the names of the sources an update has succeeded for
    invocations,\* number of commands run so far
    \* ---- GitException::checkAndThrow
    gitError,   \* the error code a library call returned
    lastError,  \* the message of giterr_last()
    raised,     \* what the call of checkAndThrow raised ("unchecked" before it)
    \* ---- GitRepo::init
    dir,        \* the directory to initialise
    exists,     \* the directories that exist
    creatable,  \* the directories that can be created
    initPc,     \* where the closure of init is: mkpath, init, return, ended
    initCalled, \* git_repository_init_ext has been called
    repo,       \* the GitRepo the closure returned ("none" while none)
    \* ---- CommandLine::Parser::process, parse and handle
    argv,       \* what the program was started with, the application name first
    entry,      \* the process called: "argv" (argc, argv) or "list" (QStringList)
    handled,    \* the names handleOption was called with for the current item
    called,     \* the callbacks handle has invoked, in order
    keys,       \* the option keys a loop of handle has still to visit
    outcome,    \* how process ended: [kind, code]
    arguments,  \* the list handed to parse
    it,         \* number of arguments the iterator has passed
    parsed,     \* result: options, arguments, commandChain
    currentCommand,  \* the name of the command parsing is in
    options,    \* the options known so far: key -> Option
    positionals,\* the positional arguments declared so far, in order
    haveStartedPositionals,
    perror,     \* the exception thrown by parse or handle ("none" while none)
    ppc         \* where process is: process, start, items, done (parse is
                \* over), early, values, handled, caught, ended; idle

installVars == <<db, args, ipc, resolved, issued, installOk, group, config,
                 issuedWith, thrown, exitCode>>
taskVars == <<d, log, call, wpc, caught, reports, applied, late, ended>>
gitVars == <<payload, cb, cancel>>

credVars == <<challenges, brokerCalls, query, response, out, ret>>
srcVars == <<cmd, scope, available, sources, todo, shown, sthrown, now, updatedOk,
             invocations>>
excVars == <<gitError, lastError, raised>>
initVars == <<dir, exists, creatable, initPc, initCalled, repo>>
procVars == <<argv, entry, called, keys, outcome>>
parVars == <<arguments, it, parsed, currentCommand, options, positionals,
             haveStartedPositionals, perror, ppc, handled, procVars>>
restVars == <<credVars, srcVars, excVars, initVars, parVars>>

\* What the steps of one part leave alone.
notCred == <<installVars, taskVars, gitVars, srcVars, excVars, initVars, parVars>>
notSrc == <<installVars, taskVars, gitVars, credVars, excVars, initVars, parVars>>
notExc == <<installVars, taskVars, gitVars, credVars, srcVars, initVars, parVars>>
notPar == <<installVars, taskVars, gitVars, credVars, srcVars, excVars, initVars>>

vars == <<installVars, taskVars, gitVars, restVars>>

\* No credential challenge has been made.
NoQuery == [types |-> {}]
NoResponse == [cred |-> "null", error |-> FALSE]
NoCred ==
    /\ challenges = 0
    /\ brokerCalls = 0
    /\ query = NoQuery
    /\ response = NoResponse
    /\ out = "unwritten"
    /\ ret = 0

\* No `sources` command runs.
DbTypes == {"project", "user", "system"}
NoSources ==
    /\ cmd = "idle"
    /\ scope = "project"
    /\ available = {}
    /\ sources = [t \in DbTypes |-> <<>>]
    /\ todo = <<>>
    /\ shown = <<>>
    /\ sthrown = "none"
    /\ now = 0
    /\ updatedOk = {}
    /\ invocations = 0

\* No error code is being checked.
NotChecked == [type |-> "unchecked", message |-> "", error |-> 0]
NoCheck ==
    /\ gitError = 0
    /\ lastError = ""
    /\ raised = NotChecked

\* No repository is being initialised.
NoInit ==
    /\ dir = ""
    /\ exists = {}
    /\ creatable = {}
    /\ initPc = "idle"
    /\ initCalled = FALSE
    /\ repo = "none"

\* process has not ended.
Running == [kind |-> "running", code |-> 0]

\* No command line is being parsed.
NoResult == [options |-> <<>>, arguments |-> <<>>, commandChain |-> <<>>]
NoParse ==
    /\ arguments = <<>>
    /\ it = 0
    /\ parsed = NoResult
    /\ currentCommand = ""
    /\ options = <<>>
    /\ positionals = <<>>
    /\ haveStartedPositionals = FALSE
    /\ perror = "none"
    /\ ppc = "idle"
    /\ handled = <<>>
    /\ argv = <<>>
    /\ entry = "list"
    /\ called = <<>>
    /\ keys = {}
    /\ outcome = Running

\* The parts of the program a specification does not run are idle.
NoRest == NoCred /\ NoSources /\ NoCheck /\ NoInit /\ NoParse

(***************************************************************************)
(* Packages, versions and queries.                                         *)
(***************************************************************************)
Names == {"foo", "bar"}
Versions == 1..MaxVersion
AllPackages == [name : Names, version : Versions]

\* A version as it is written in a query string.
VersionText(v) == ToString(v)

\* A query is the string `name[@req]`, kept as its sequence of tokens:
\* <<"foo">>, <<"foo", "@", "2">> (exactly 2) or <<"foo", "@", ">=", "2">>.
Queries ==
    {<<n>> : n \in Names}
    \cup {<<n, "@", VersionText(v)>> : n \in Names, v \in Versions}
    \cup {<<n, "@", ">=", VersionText(v)>> : n \in Names, v \in Versions \ {1}}

\* QString::indexOf('@'): the 0-based index of the first "@", or -1.
indexOf(q, ch) ==
    IF \E i \in 1..Len(q) : q[i] = ch
    THEN (CHOOSE i \in 1..Len(q) : q[i] = ch /\ \A j \in 1..(i - 1) : q[j] # ch) - 1
    ELSE -1

\* QString::mid(pos, n): n = -1 takes everything from pos on.
mid(q, pos, n) ==
    IF n = -1 THEN SubSeq(q, pos + 1, Len(q))
    ELSE SubSeq(q, pos + 1, IF pos + n > Len(q) THEN Len(q) ELSE pos + n)

\* VersionRequirement(): the empty requirement, which every version satisfies.
AnyVersion == [op |-> "any", v |-> 0]

\* VersionRequirement::fromString on the text after the '@': a bare version
\* is an exact requirement, `>=v` a lower bound.
fromString(text) ==
    IF Len(text) = 1
    THEN [op |-> "eq", v |-> CHOOSE v \in Versions : VersionText(v) = text[1]]
    ELSE [op |-> "ge", v |-> CHOOSE v \in Versions : VersionText(v) = text[2]]

\* VersionRequirement::satisfies
satisfies(req, v) ==
    CASE req.op = "any" -> TRUE
      [] req.op = "eq" -> v = req.v
      [] req.op = "ge" -> v >= req.v

\* PackageDatabase::findPackages(name, req): the packages of that exact name
\* whose version satisfies the requirement.
findPackages(database, name, req) ==
    {p \in database : p.name = name /\ satisfies(req, p.version)}

\* The name and the requirement queryPackage reads out of a query.
queryName(q) == mid(q, 0, indexOf(q, "@"))[1]
queryRequirement(q) ==
    IF indexOf(q, "@") = -1 THEN AnyVersion ELSE fromString(mid(q, indexOf(q, "@") + 1, -1))

\* std::sort with the comparator a->version() < b->version(): the candidates
\* in ascending order of version.
RECURSIVE sortByVersion(_)
sortByVersion(S) ==
    IF S = {} THEN <<>>
    ELSE LET least == CHOOSE p \in S : \A o \in S : p.version <= o.version
         IN <<least>> \o sortByVersion(S \ {least})

\* The two messages queryPackage throws when there is no candidate.
ErrOtherVersions == "No package found, but other versions are available"
ErrNoPackage == "No package found"

\* queryPackage's failure branch with the two messages swapped.
queryFailureSwapped(database, name) ==
    IF findPackages(database, name, AnyVersion) # {} THEN ErrNoPackage ELSE ErrOtherVersions

\* queryPackage, no candidate: which failure is thrown.
queryFailure(database, name) ==
    IF findPackages(database, name, AnyVersion) # {} THEN ErrOtherVersions ELSE ErrNoPackage

\* queryPackage: the package returned, or the failure thrown.
queryPackage(database, q) ==
    LET name == queryName(q)
        version == queryRequirement(q)
        candidates == sortByVersion(findPackages(database, name, version))
    IN IF candidates = <<>>
       THEN [ok |-> FALSE, error |-> queryFailure(database, name)]
       ELSE [ok |-> TRUE, pkg |-> Head(candidates)]

(***************************************************************************)
(* Parser::process: the exit status for each way the parse and the         *)
(* handlers can end.  A CommandLineException is answered with printHelp,   *)
(* which ends the process through std::exit(0).                            *)
(***************************************************************************)
processStatus(exception) ==
    CASE exception = "none" -> 0
      [] exception = "BuildException" -> -1
      [] exception = "CommandLineException" -> 0
      [] OTHER -> -1

(***************************************************************************)
(* State::installPackage, run as the handler of `install p1 ... pn`.       *)
(***************************************************************************)
BoundedSeqs(S, n) == UNION {[1..k -> S] : k \in 1..n}

\* What --group and --config can be given as.
Groups == {"", "dev"}
Configs == {<<>>, <<"shared=on">>}

\* No task exists.
NoTasks ==
    /\ d = <<>>
    /\ log = <<>>
    /\ call = <<>>
    /\ wpc = <<>>
    /\ caught = <<>>
    /\ reports = <<>>
    /\ applied = <<>>
    /\ late = <<>>
    /\ ended = <<>>
    /\ payload = <<>>
    /\ cb = <<>>
    /\ cancel = <<>>

InitInstall ==
    /\ NoTasks
    /\ NoRest
    /\ db \in SUBSET AllPackages
    /\ args \in BoundedSeqs(Queries, MaxArgs)
    /\ group \in Groups
    /\ config \in Configs
    /\ ipc = "createDB"
    /\ resolved = <<>>
    /\ issued = <<>>
    /\ installOk = <<>>
    /\ issuedWith = <<>>
    /\ thrown = "none"
    /\ exitCode = 0

\* The handler is left by an exception: process catches it and returns.
Leave(message) ==
    /\ thrown' = message
    /\ ipc' = "done"
    /\ exitCode' = processStatus("Exception")

\* awaitTerminal(createDB()): the database is there, or its task failed.
createDB ==
    /\ ipc = "createDB"
    /\ \/ /\ ipc' = "map"
          /\ UNCHANGED <<thrown, exitCode>>
       \/ Leave("Database unavailable")
    /\ UNCHANGED <<db, args, resolved, issued, installOk, group, config, issuedWith>>
    /\ UNCHANGED <<taskVars, gitVars, restVars>>

\* .map(queryPackage): the next query is resolved; a failure leaves the handler.
mapQuery ==
    /\ ipc = "map"
    /\ Len(resolved) < Len(args)
    /\ LET r == queryPackage(db, args[Len(resolved) + 1])
       IN IF r.ok
          THEN /\ resolved' = Append(resolved, r.pkg)
               /\ ipc' = IF Len(resolved) + 1 = Len(args) THEN "each" ELSE "map"
               /\ UNCHANGED <<thrown, exitCode>>
          ELSE /\ Leave(r.error)
               /\ UNCHANGED resolved
    /\ UNCHANGED <<db, args, issued, installOk, group, config, issuedWith>>
    /\ UNCHANGED <<taskVars, gitVars, restVars>>

\* .each visits the packages from the last to the first.
eachNextReversed == resolved[Len(resolved) - Len(issued)]

\* .each visits the packages in the order .map produced them.
eachNext == resolved[Len(issued) + 1]

\* .each(install): db->group(group).install(pkg, config) is issued for the
\* next package and the handler blocks in awaitTerminal.
eachInstall ==
    /\ ipc = "each"
    /\ Len(issued) < Len(resolved)
    /\ issued' = Append(issued, eachNext)
    /\ issuedWith' = Append(issuedWith, [group |-> group, config |-> config])
    /\ ipc' = "awaitTerminal"
    /\ UNCHANGED <<db, args, resolved, installOk, group, config, thrown, exitCode>>
    /\ UNCHANGED <<taskVars, gitVars, restVars>>

\* awaitTerminal returns when the install task has finished; a failed install
\* task makes it throw, which leaves the handler.
awaitTerminal ==
    /\ ipc = "awaitTerminal"
    /\ \/ /\ installOk' = Append(installOk, TRUE)
          /\ ipc' = "each"
          /\ UNCHANGED <<thrown, exitCode>>
       \/ /\ installOk' = Append(installOk, FALSE)
          /\ Leave("Install failed")
    /\ UNCHANGED <<db, args, resolved, issued, group, config, issuedWith>>
    /\ UNCHANGED <<taskVars, gitVars, restVars>>

\* The handler returned: process returns 0.
processReturn ==
    /\ ipc = "each"
    /\ Len(issued) = Len(resolved)
    /\ ipc' = "done"
    /\ exitCode' = processStatus("none")
    /\ UNCHANGED <<db, args, resolved, issued, installOk, group, config,
                   issuedWith, thrown>>
    /\ UNCHANGED <<taskVars, gitVars, restVars>>

NextInstall ==
    \/ createDB
    \/ mapQuery
    \/ eachInstall
    \/ awaitTerminal
    \/ processReturn

SpecInstall == InitInstall /\ [][NextInstall]_vars


(***************************************************************************)
(* Claims about the package query and the install pipeline.                *)
(***************************************************************************)
candidatesOf(q) == findPackages(db, queryName(q), queryRequirement(q))

\* A query failed: the handler was left while queries were still unresolved.
QueryFailed ==
    ipc = "done" /\ Len(resolved) < Len(args) /\ thrown # "Database unavailable"

\* C1: the package queryPackage returns for a query has the highest version
\* among all packages findPackages yields for that query.
C1_ReturnsHighestVersion ==
    \A i \in 1..Len(resolved) :
        \A c \in candidatesOf(args[i]) : c.version <= resolved[i].version

\* C2: queryPackage returns a package only when some package satisfies the
\* query; when none does it fails, with the "other versions are available"
\* failure exactly when the unconstrained lookup of the name is non-empty and
\* with the plain "no package found" failure exactly when it is empty.
C2_FailureKinds ==
    /\ \A i \in 1..Len(resolved) : resolved[i] \in candidatesOf(args[i])
    /\ QueryFailed =>
         LET q == args[Len(resolved) + 1]
             known == findPackages(db, queryName(q), AnyVersion) # {}
         IN /\ candidatesOf(q) = {}
            /\ thrown \in {ErrOtherVersions, ErrNoPackage}
            /\ ErrOtherVersions # ErrNoPackage
            /\ (thrown = ErrOtherVersions) <=> known
            /\ (thrown = ErrNoPackage) <=> ~known

\* C2's case: a query for a known name at a version nobody has.
C2_Witness ==
    /\ QueryFailed
    /\ thrown = ErrOtherVersions
    /\ Len(args[Len(resolved) + 1]) > 1

\* C3: when the invocation has ended, every package argument that can be
\* resolved has had its install issued, whatever happened to the other
\* arguments, and the invocation ended with a failure status if any failed.
C3_PipelineContinues ==
    (ipc = "done" /\ thrown # "Database unavailable") =>
        /\ \A j \in 1..Len(args) :
               queryPackage(db, args[j]).ok =>
                   \E k \in 1..Len(issued) : issued[k] = queryPackage(db, args[j]).pkg
        /\ thrown # "none" => exitCode # 0

\* C4: process returns 0 when the invocation succeeds and 1 when the command
\* handler raises a user-facing failure (a resolution or an install failure);
\* -1 is kept for logic errors, of which this handler raises none.
C4_ExitCodes ==
    ipc = "done" => exitCode = (IF thrown = "none" THEN 0 ELSE 1)

(***************************************************************************)
(* BasePromise (clientlib/future/Promise.cpp).                             *)
(*                                                                         *)
(* Every task has one BaseFutureData d, shared by its promise and its      *)
(* futures.  A report function first assigns to d under d->mutex, then,    *)
(* with the mutex released, emits the signal on every watcher, then calls  *)
(* the same function on d->delegateTo.  A call in flight is therefore a    *)
(* position of the calling worker thread: the task it is at (target) and   *)
(* whether its next step is the emit ("report") or the nested call on the  *)
(* delegate ("delegate").                                                  *)
(***************************************************************************)
Terminal(state) == state \in {"Finished", "Canceled", "Exception"}

\* BaseFutureData of a task that has not been started.
NewData ==
    [state |-> "NotStarted", progressCurrent |-> 0, progressTotal |-> 0,
     status |-> "", exception |-> "", delegateTo |-> "none", watchers |-> {}]

\* No report call in flight.
NoCall ==
    [kind |-> "none", c |-> 0, tot |-> 0, msg |-> "", target |-> "none",
     phase |-> "idle", n |-> 0]

\* reportFinished, under the mutex
reportFinished(data) == [data EXCEPT !.state = "Finished"]
\* reportCanceled, under the mutex
reportCanceled(data) == [data EXCEPT !.state = "Canceled"]
\* reportProgress, under the mutex
reportProgress(data, current, total) ==
    [data EXCEPT !.progressCurrent = current, !.progressTotal = total]
\* reportStatus, under the mutex
reportStatus(data, message) == [data EXCEPT !.status = message]
\* reportException, under the mutex
reportException(data, exception) ==
    [data EXCEPT !.exception = exception, !.state = "Exception"]

\* The assignments a report call makes to the data of the task it is at.
locked(data, cl) ==
    CASE cl.kind = "finished" -> reportFinished(data)
      [] cl.kind = "canceled" -> reportCanceled(data)
      [] cl.kind = "progress" -> reportProgress(data, cl.c, cl.tot)
      [] cl.kind = "status" -> reportStatus(data, cl.msg)
      [] cl.kind = "exception" -> reportException(data, cl.msg)

\* Delegation in which only progress is passed on to the delegate.
delegatesProgressOnly(kind) == kind = "progress"

\* The report functions that end with `if (d->delegateTo) d->delegateTo->...`.
delegates(kind) == kind \in {"progress", "status", "exception"}

\* The signal a watcher receives.  by (the worker thread that made the call)
\* and n (the number of the update of the task's data that the signal
\* announces) are the model's bookkeeping, not part of the signal.
Signal(sig, c, tot, msg, by, n) ==
    [sig |-> sig, c |-> c, tot |-> tot, msg |-> msg, by |-> by, n |-> n]

\* report(): the signal is emitted on each watcher of the task.
report(t, signal) ==
    [w \in DOMAIN log |-> IF w \in d[t].watchers THEN Append(log[w], signal) ELSE log[w]]

\* A worker thread enters a report function at task t: the locked block runs.
Enter(w, t, cl) ==
    /\ d' = [d EXCEPT ![t] = locked(d[t], cl)]
    /\ applied' = [applied EXCEPT ![t] = applied[t] + 1]
    /\ call' = [call EXCEPT ![w] = [cl EXCEPT !.target = t, !.phase = "report",
                                              !.n = applied[t] + 1]]

\* The call of a worker on its own promise.
OwnCall(kind, c, tot, msg) ==
    [kind |-> kind, c |-> c, tot |-> tot, msg |-> msg, target |-> "none",
     phase |-> "idle", n |-> 0]

\* The worker a terminal report belongs to has nothing left to do once the
\* call has returned.
AfterCall(w, returned) ==
    IF returned /\ wpc[w] = "terminating" THEN [wpc EXCEPT ![w] = "done"] ELSE wpc

\* The emit of a call in flight, and what follows it: the nested call on the
\* delegate, or the return.
reportStep(w) ==
    /\ call[w].phase = "report"
    /\ LET cl == call[w]
           t == cl.target
           nested == delegates(cl.kind) /\ d[t].delegateTo # "none"
       IN /\ log' = report(t, Signal(cl.kind, cl.c, cl.tot, cl.msg, w, cl.n))
          /\ call' = [call EXCEPT ![w] = IF nested THEN [cl EXCEPT !.phase = "delegate"]
                                                  ELSE NoCall]
          /\ wpc' = AfterCall(w, ~nested)
    /\ UNCHANGED <<d, caught, reports, applied, late>>
    /\ UNCHANGED <<ended, gitVars, installVars, restVars>>

\* d->delegateTo->reportX(...): the same function is entered at the delegate.
delegateStep(w) ==
    /\ call[w].phase = "delegate"
    /\ Enter(w, d[call[w].target].delegateTo, call[w])
    /\ UNCHANGED <<log, wpc, caught, reports, late>>
    /\ UNCHANGED <<ended, gitVars, installVars, restVars>>

\* reportStarted: the task has been started (its state is set by
\* BaseFutureData::start); the watchers are told.
reportStarted(t) ==
    /\ wpc[t] = "starting"
    /\ log' = report(t, Signal("started", 0, 0, "", t, 0))
    /\ wpc' = [wpc EXCEPT ![t] = "running"]
    /\ UNCHANGED <<d, call, caught, reports, applied, late>>
    /\ UNCHANGED <<ended, gitVars, installVars, restVars>>

(***************************************************************************)
(* The workers.  async(closure) runs the closure on a worker thread of its *)
(* own and reports how it ended; the closure talks to its promise through  *)
(* a Notifier: progress, status, and await, which starts a subordinate     *)
(* task that delegates to the awaiting one and blocks until that task has  *)
(* terminated, rethrowing its failure.                                     *)
(*                                                                         *)
(* In this specification three tasks form a chain: outer awaits mid, mid   *)
(* awaits leaf; what each closure reports, whether it catches a failure    *)
(* and how it ends are free.                                               *)
(***************************************************************************)
ChainTasks == {"outer", "mid", "leaf"}
PairTasks == {"top", "sub"}
Subordinate == [outer |-> "mid", mid |-> "leaf", leaf |-> "none", top |-> "sub", sub |-> "none"]

\* What a closure reports as progress and as status.
ProgressValues == {<<1, 2>>, <<2, 2>>}
StatusValues == {"Fetching..."}

Idle(t) == wpc[t] = "running" /\ call[t].phase = "idle"

InitTasks(tasks, root) ==
    /\ d = [t \in tasks |->
              [NewData EXCEPT !.watchers = {t},
                              !.state = IF t = root THEN "Running" ELSE "NotStarted"]]
    /\ log = [w \in tasks \cup {"late"} |-> <<>>]
    /\ call = [t \in tasks |-> NoCall]
    /\ wpc = [t \in tasks |-> IF t = root THEN "starting" ELSE "unstarted"]
    /\ caught = [t \in tasks |-> FALSE]
    /\ reports = [t \in tasks |-> 0]
    /\ applied = [t \in tasks |-> 0]
    /\ late = [task |-> "none", state |-> ""]
    /\ ended = [t \in tasks |-> ""]

\* Notifier::progress
notifierProgress(t) ==
    /\ Idle(t)
    /\ reports[t] < MaxReports
    /\ \E p \in ProgressValues : Enter(t, t, OwnCall("progress", p[1], p[2], ""))
    /\ reports' = [reports EXCEPT ![t] = reports[t] + 1]
    /\ UNCHANGED <<log, wpc, caught, late>>
    /\ UNCHANGED <<ended, gitVars, installVars, restVars>>

\* Notifier::status
notifierStatus(t) ==
    /\ Idle(t)
    /\ reports[t] < MaxReports
    /\ \E m \in StatusValues : Enter(t, t, OwnCall("status", 0, 0, m))
    /\ reports' = [reports EXCEPT ![t] = reports[t] + 1]
    /\ UNCHANGED <<log, wpc, caught, late>>
    /\ UNCHANGED <<ended, gitVars, installVars, restVars>>

\* Notifier::await, the call: the subordinate is made to delegate to the
\* awaiting task and is started; the awaiting worker blocks.
awaitTask(t, sub) ==
    /\ Idle(t)
    /\ wpc[sub] = "unstarted"
    /\ d' = [d EXCEPT ![sub].delegateTo = t, ![sub].state = "Running"]
    /\ wpc' = [wpc EXCEPT ![t] = "awaiting", ![sub] = "starting"]
    /\ UNCHANGED <<log, call, caught, reports, applied, late>>
    /\ UNCHANGED <<ended, gitVars, installVars, restVars>>

\* Notifier::await, the return: the subordinate has terminated.
Awaited(t, sub) ==
    /\ wpc[t] = "awaiting"
    /\ wpc[sub] # "unstarted"
    /\ Terminal(d[sub].state)

\* The subordinate finished: await returns and the closure goes on.
awaitReturns(t, sub) ==
    /\ Awaited(t, sub)
    /\ d[sub].state = "Finished"
    /\ wpc' = [wpc EXCEPT ![t] = "running"]
    /\ UNCHANGED <<d, log, call, caught, reports, applied, late, ended>>
    /\ UNCHANGED <<gitVars, installVars, restVars>>

\* The subordinate failed: await rethrows its failure and the closure catches
\* it and goes on.
awaitCatches(t, sub) ==
    /\ Awaited(t, sub)
    /\ d[sub].state = "Exception"
    /\ wpc' = [wpc EXCEPT ![t] = "running"]
    /\ caught' = [caught EXCEPT ![t] = TRUE]
    /\ UNCHANGED <<d, log, call, reports, applied, late, ended>>
    /\ UNCHANGED <<gitVars, installVars, restVars>>

\* The subordinate failed: await rethrows its failure, which leaves the
\* closure, and the worker reports it as the task's own.
awaitRethrows(t, sub) ==
    /\ Awaited(t, sub)
    /\ d[sub].state = "Exception"
    /\ Enter(t, t, OwnCall("exception", 0, 0, d[sub].exception))
    /\ wpc' = [wpc EXCEPT ![t] = "terminating"]
    /\ ended' = [ended EXCEPT ![t] = "threw"]
    /\ UNCHANGED <<log, caught, reports, late>>
    /\ UNCHANGED <<gitVars, installVars, restVars>>

\* The closure returns: the worker reports the task finished.
closureReturns(t) ==
    /\ Idle(t)
    /\ Enter(t, t, OwnCall("finished", 0, 0, ""))
    /\ wpc' = [wpc EXCEPT ![t] = "terminating"]
    /\ UNCHANGED <<log, caught, reports, late>>
    /\ ended' = [ended EXCEPT ![t] = "returned"]
    /\ UNCHANGED <<gitVars, installVars, restVars>>

\* The closure throws a failure of its own: the worker reports it.
closureThrows(t) ==
    /\ Idle(t)
    /\ Enter(t, t, OwnCall("exception", 0, 0, t))
    /\ wpc' = [wpc EXCEPT ![t] = "terminating"]
    /\ UNCHANGED <<log, caught, reports, late>>
    /\ ended' = [ended EXCEPT ![t] = "threw"]
    /\ UNCHANGED <<gitVars, installVars, restVars>>

\* The closure saw the cancellation request: the worker reports it canceled.
closureCanceled(t) ==
    /\ Idle(t)
    /\ Enter(t, t, OwnCall("canceled", 0, 0, ""))
    /\ wpc' = [wpc EXCEPT ![t] = "terminating"]
    /\ UNCHANGED <<log, caught, reports, late>>
    /\ ended' = [ended EXCEPT ![t] = "canceled"]
    /\ UNCHANGED <<gitVars, installVars, restVars>>

\* The signal that tells a terminal state.
TerminalSignal(state) ==
    CASE state = "Finished" -> "finished"
      [] state = "Canceled" -> "canceled"
      [] state = "Exception" -> "exception"

\* An observer is attached to a task that has terminated: it is added to the
\* watchers and is told the terminal state at once.
lateAttach(t) ==
    /\ late.task = "none"
    /\ Terminal(d[t].state)
    /\ late' = [task |-> t, state |-> d[t].state]
    /\ d' = [d EXCEPT ![t].watchers = @ \cup {"late"}]
    /\ log' = [log EXCEPT !["late"] =
                  <<Signal(TerminalSignal(d[t].state), 0, 0, d[t].exception, "late", 0)>>]
    /\ UNCHANGED <<call, wpc, caught, reports, applied>>
    /\ UNCHANGED <<ended, gitVars, installVars, restVars>>

\* No task is inside a call of the git library.
NoCallback == [next |-> "none", c |-> 0, tot |-> 0, state |-> "Initial"]
NotCanceled == [requested |-> FALSE, during |-> "none"]
NoGit(tasks) ==
    /\ payload = [t \in tasks |-> "Initial"]
    /\ cb = [t \in tasks |-> NoCallback]
    /\ cancel = NotCanceled

\* No install invocation is running.
NoInstall ==
    /\ db = {}
    /\ args = <<>>
    /\ ipc = "idle"
    /\ resolved = <<>>
    /\ issued = <<>>
    /\ installOk = <<>>
    /\ group = ""
    /\ config = <<>>
    /\ issuedWith = <<>>
    /\ thrown = "none"
    /\ exitCode = 0

\* Three tasks in a chain, composed the way pull composes fetch and checkout:
\* outer and mid only await; leaf reports progress and status.
InitChain == InitTasks(ChainTasks, "outer") /\ NoGit(ChainTasks) /\ NoInstall /\ NoRest

NextChain ==
    \/ \E t \in ChainTasks : reportStarted(t)
    \/ notifierProgress("leaf")
    \/ notifierStatus("leaf")
    \/ \E t \in ChainTasks \ {"leaf"} : awaitTask(t, Subordinate[t])
    \/ \E t \in ChainTasks \ {"leaf"} : awaitReturns(t, Subordinate[t])
    \/ \E t \in ChainTasks \ {"leaf"} : awaitCatches(t, Subordinate[t])
    \/ \E t \in ChainTasks \ {"leaf"} : awaitRethrows(t, Subordinate[t])
    \/ \E t \in ChainTasks : closureReturns(t)
    \/ \E t \in ChainTasks : closureThrows(t)
    \/ closureCanceled("outer")
    \/ \E t \in ChainTasks : reportStep(t)
    \/ \E t \in ChainTasks : delegateStep(t)

SpecChain == InitChain /\ [][NextChain]_vars

\* Two tasks, top awaiting sub; both closures report freely, and an observer
\* may be attached late.
InitPair == InitTasks(PairTasks, "top") /\ NoGit(PairTasks) /\ NoInstall /\ NoRest

NextPair ==
    \/ \E t \in PairTasks : reportStarted(t)
    \/ \E t \in PairTasks : notifierProgress(t)
    \/ \E t \in PairTasks : notifierStatus(t)
    \/ awaitTask("top", "sub")
    \/ awaitReturns("top", "sub")
    \/ awaitCatches("top", "sub")
    \/ awaitRethrows("top", "sub")
    \/ \E t \in PairTasks : closureReturns(t)
    \/ \E t \in PairTasks : closureThrows(t)
    \/ closureCanceled("top")
    \/ \E t \in PairTasks : reportStep(t)
    \/ \E t \in PairTasks : delegateStep(t)
    \/ \E t \in PairTasks : lateAttach(t)

SpecPair == InitPair /\ [][NextPair]_vars


(***************************************************************************)
(* Claims about the promise.                                               *)
(***************************************************************************)
\* The number of signals of a log that tell a terminal state.
TerminalSignals(lg) ==
    Cardinality({i \in 1..Len(lg) : lg[i].sig \in {"finished", "canceled", "exception"}})

\* The moves the lifecycle allows to the state of a task.
LifecycleStep(from, to) ==
    \/ to = from
    \/ from = "NotStarted" /\ to = "Running"
    \/ from = "Running" /\ Terminal(to)

\* C5: the state of a task moves only from Running to Finished, Canceled or
\* Exception, a terminal state never changes again, whichever report calls
\* follow (its own or a delegating subordinate's), and no watcher is told a
\* terminal state more than once.
C5_TerminalStateAbsorbing ==
    /\ [][\A t \in DOMAIN d : LifecycleStep(d[t].state, d'[t].state)]_vars
    /\ [](\A t \in DOMAIN d : TerminalSignals(log[t]) <= 1)

\* C6: a task whose closure caught the failure of the subordinate it awaited
\* and then returned normally is never in state Exception, ends Finished, and
\* its watchers are told no exception.
C6_CaughtFailureStaysInside ==
    \A t \in DOMAIN d :
        (caught[t] /\ ended[t] = "returned") =>
            /\ d[t].state # "Exception"
            /\ wpc[t] = "done" => d[t].state = "Finished"
            /\ \A i \in 1..Len(log[t]) : log[t][i].sig # "exception"

\* What a signal says, without the model's bookkeeping.
Said(e) == [sig |-> e.sig, c |-> e.c, tot |-> e.tot, msg |-> e.msg]

\* The progress and status signals of a log that come from reports made by
\* worker w, in the order of the log.
MirroredFrom(lg, w) ==
    LET own == SelectSeq(lg, LAMBDA e : e.by = w /\ e.sig \in {"progress", "status"})
    IN [i \in 1..Len(own) |-> Said(own[i])]

IsPrefix(s, t) == Len(s) <= Len(t) /\ \A i \in 1..Len(s) : s[i] = t[i]

\* The tasks a task delegates to, directly or through others.
RECURSIVE Ancestors(_)
Ancestors(t) ==
    IF d[t].delegateTo = "none" THEN {}
    ELSE {d[t].delegateTo} \cup Ancestors(d[t].delegateTo)

\* C7: the progress and status reports of a delegating task reach every task
\* up its delegation chain: the watchers of each ancestor are told the same
\* values in the order the reports were made, all of them once the report
\* call has returned, and the call leaves the ancestor's stored progress and
\* status at the reported values.
C7_ReportsMirroredUpward ==
    /\ \A w \in DOMAIN d : \A a \in Ancestors(w) :
          /\ IsPrefix(MirroredFrom(log[a], w), MirroredFrom(log[w], w))
          /\ call[w].phase = "idle" => MirroredFrom(log[a], w) = MirroredFrom(log[w], w)
    /\ \A w \in DOMAIN d :
          LET cl == call[w]
          IN (cl.phase = "report" /\ applied[cl.target] = cl.n) =>
                /\ cl.kind = "progress" =>
                      /\ d[cl.target].progressCurrent = cl.c
                      /\ d[cl.target].progressTotal = cl.tot
                /\ cl.kind = "status" => d[cl.target].status = cl.msg

\* C7's case: the outermost task of a chain of three has been told two
\* different reports of the innermost one.
C7_Witness ==
    /\ "outer" \in DOMAIN d
    /\ LET m == MirroredFrom(log["outer"], "leaf")
       IN Len(m) = 2 /\ m[1].sig = "progress" /\ m[2].sig = "status"
    /\ d["outer"].status = "Fetching..."
    /\ d["outer"].progressTotal = 2

\* C8: every watcher of a task is told of the updates of the task's data in
\* the order in which the updates were made.
C8_NotificationsInUpdateOrder ==
    \A t \in DOMAIN d :
        \A i, j \in 1..Len(log[t]) : i < j => log[t][i].n < log[t][j].n

\* C9: an observer attached to a task that has terminated is told exactly one
\* thing: the terminal state the task had when the observer was attached.
C9_LateObserverToldOnce ==
    late.task # "none" =>
        /\ Len(log["late"]) = 1
        /\ log["late"][1].sig = TerminalSignal(late.state)

(***************************************************************************)
(* GitRepo (clientlib/git/GitRepo.cpp).  fetch and checkout are tasks      *)
(* whose closure makes one call of the git library: the library calls the  *)
(* progress callback any number of times and returns an error code, which  *)
(* checkAndThrow turns into a failure when it is negative.  pull is a task *)
(* whose closure awaits fetch and then checkout.  A resource the closure   *)
(* fails to create before the library call ends the closure the same way   *)
(* as a negative error code does.                                          *)
(***************************************************************************)
GitTasks == {"pull", "fetch", "checkout"}

\* What the library returns: success, or an error.
ReturnCodes == {0, -1}

\* checkAndThrow taking every code but GIT_OK for an error.
checkAndThrowNonZero(code) == code # 0

\* GitException::checkAndThrow: does it throw?
checkAndThrow(code) == code < 0

\* The statements of pull's closure, swapped.
pullBodySwapped == <<"checkout", "fetch">>

\* The statements of pull's closure: the tasks it awaits, in order.
pullBody == <<"fetch", "checkout">>

\* The tasks pull has not started yet, and the one it started last.
pullPending == SelectSeq(pullBody, LAMBDA t : wpc[t] = "unstarted")
pullStarted == SelectSeq(pullBody, LAMBDA t : wpc[t] # "unstarted")
pullAwaited == pullStarted[Len(pullStarted)]

\* pull: the next statement is an await; the task it names is created and
\* awaited.
pullAwaits ==
    /\ pullPending # <<>>
    /\ awaitTask("pull", Head(pullPending))

\* pull: the await returned (the awaited task finished) or rethrew (it
\* failed); the closure has no handler.
pullAwaitReturns ==
    /\ pullStarted # <<>>
    /\ awaitReturns("pull", pullAwaited)

pullAwaitRethrows ==
    /\ pullStarted # <<>>
    /\ awaitRethrows("pull", pullAwaited)

\* pull: no statement is left, the closure returns.
pullReturns ==
    /\ pullPending = <<>>
    /\ closureReturns("pull")

\* The progress callbacks.  The first callback of a phase announces the phase
\* with a status, then sets the payload's state; every callback reports the
\* progress.  Each report is a call on the promise that runs to its end
\* before the callback goes on.
callbackReports(t, phase, message, p) ==
    IF payload[t] # phase
    THEN /\ Enter(t, t, OwnCall("status", 0, 0, message))
         /\ cb' = [cb EXCEPT ![t] = [next |-> "progress", c |-> p[1],
                                     tot |-> p[2], state |-> phase]]
    ELSE /\ Enter(t, t, OwnCall("progress", p[1], p[2], ""))
         /\ UNCHANGED cb

gitFetchNotifier(t) ==
    /\ Idle(t)
    /\ cb[t].next = "none"
    /\ reports[t] < MaxReports
    /\ reports' = [reports EXCEPT ![t] = reports[t] + 1]
    /\ \E p \in ProgressValues : callbackReports(t, "Fetching", "Fetching...", p)
    /\ UNCHANGED <<log, wpc, caught, late, ended, payload, cancel, installVars, restVars>>

gitCheckoutNotifier(t) ==
    /\ Idle(t)
    /\ cb[t].next = "none"
    /\ reports[t] < MaxReports
    /\ reports' = [reports EXCEPT ![t] = reports[t] + 1]
    /\ \E p \in ProgressValues :
          callbackReports(t, "CheckingOut", "Checking out...", p)
    /\ UNCHANGED <<log, wpc, caught, late, ended, payload, cancel, installVars, restVars>>

\* The status call of a callback has returned: the payload's state is set and
\* the progress is reported.
callbackResumes(t) ==
    /\ Idle(t)
    /\ cb[t].next = "progress"
    /\ payload' = [payload EXCEPT ![t] = cb[t].state]
    /\ Enter(t, t, OwnCall("progress", cb[t].c, cb[t].tot, ""))
    /\ cb' = [cb EXCEPT ![t] = NoCallback]
    /\ UNCHANGED <<log, wpc, caught, reports, late, ended, cancel, installVars, restVars>>

\* The library call returns and the closure ends: it throws when the error
\* code is negative and returns otherwise; the worker reports either.
libraryReturns(t) ==
    /\ Idle(t)
    /\ cb[t].next = "none"
    /\ \E error \in ReturnCodes :
          IF checkAndThrow(error)
          THEN /\ Enter(t, t, OwnCall("exception", 0, 0, t))
               /\ ended' = [ended EXCEPT ![t] = "threw"]
          ELSE /\ Enter(t, t, OwnCall("finished", 0, 0, ""))
               /\ ended' = [ended EXCEPT ![t] = "returned"]
    /\ wpc' = [wpc EXCEPT ![t] = "terminating"]
    /\ UNCHANGED <<log, caught, reports, late, gitVars, installVars, restVars>>

\* future.cancel() on pull: the cancellation flag is set; the producer may
\* poll it.  `during` records the task pull was awaiting, if that task had
\* not terminated.
cancelPull ==
    /\ ~cancel.requested
    /\ ~Terminal(d["pull"].state)
    /\ cancel' = [requested |-> TRUE,
                  during |-> IF wpc["pull"] = "awaiting" /\ pullStarted # <<>>
                                /\ ~Terminal(d[pullAwaited].state)
                             THEN pullAwaited ELSE "none"]
    /\ UNCHANGED <<taskVars, payload, cb, installVars, restVars>>

InitGit == InitTasks(GitTasks, "pull") /\ NoGit(GitTasks) /\ NoInstall /\ NoRest

NextGit ==
    \/ \E t \in GitTasks : reportStarted(t)
    \/ pullAwaits
    \/ pullAwaitReturns
    \/ pullAwaitRethrows
    \/ pullReturns
    \/ cancelPull
    \/ gitFetchNotifier("fetch")
    \/ gitCheckoutNotifier("checkout")
    \/ \E t \in {"fetch", "checkout"} : callbackResumes(t)
    \/ \E t \in {"fetch", "checkout"} : libraryReturns(t)
    \/ \E t \in GitTasks : reportStep(t)
    \/ \E t \in GitTasks : delegateStep(t)

SpecGit == InitGit /\ [][NextGit]_vars

\* The events of the tasks in `from` that a watcher was told.
EventsBy(lg, from) == SelectSeq(lg, LAMBDA e : e.by \in from)

\* C10: within pull, checkout is started only after fetch has terminated
\* successfully: whenever checkout has been started fetch is Finished, no
\* watcher of pull is told an event of fetch after one of checkout, and when
\* fetch has failed checkout is never started and pull, once it has
\* terminated, is in the Exception state with the failure of fetch.
C10_CheckoutOnlyAfterFetch ==
    /\ wpc["checkout"] # "unstarted" => d["fetch"].state = "Finished"
    /\ \A i, j \in 1..Len(log["pull"]) :
          (i < j /\ log["pull"][i].by = "checkout") => log["pull"][j].by # "fetch"
    /\ d["fetch"].state = "Exception" =>
          /\ wpc["checkout"] = "unstarted"
          /\ wpc["pull"] = "done" =>
                /\ d["pull"].state = "Exception"
                /\ d["pull"].exception = d["fetch"].exception
                /\ EventsBy(log["pull"], {"checkout"}) = <<>>

\* pull's watcher has been told the progress of fetch and then of checkout.
C10_Witness ==
    /\ "pull" \in DOMAIN d
    /\ EventsBy(log["pull"], {"fetch"}) # <<>>
    /\ EventsBy(log["pull"], {"checkout"}) # <<>>
    /\ d["fetch"].state = "Finished"

\* C11: a pull that is cancelled after its fetch has begun (and before the
\* fetch has terminated) never starts the checkout, never enters the
\* CheckingOut phase, and once it has terminated it is in the Canceled state.
C11_CancelledPullSkipsCheckout ==
    cancel.during = "fetch" =>
        /\ wpc["checkout"] = "unstarted"
        /\ payload["checkout"] # "CheckingOut"
        /\ wpc["pull"] = "done" => d["pull"].state = "Canceled"

(***************************************************************************)
(* GitRepo::clone.  The closure announces the clone with a status and      *)
(* makes one library call, git_clone, that is given both progress          *)
(* callbacks with the same payload; the library decides which callback it  *)
(* calls when.                                                             *)
(***************************************************************************)
CloneTasks == {"clone"}

\* notifier.status("Cloning %1..."), the first statement of the closure.
cloneStatus ==
    /\ Idle("clone")
    /\ applied["clone"] = 0
    /\ Enter("clone", "clone", OwnCall("status", 0, 0, "Cloning..."))
    /\ UNCHANGED <<log, wpc, caught, reports, late, ended, gitVars, installVars, restVars>>

\* The library call has been made.
Cloning == applied["clone"] > 0

\* git_clone calls the transfer-progress callback.
cloneTransferProgress ==
    /\ Cloning
    /\ gitFetchNotifier("clone")

\* git_clone calls the checkout-progress callback.
cloneCheckoutProgress ==
    /\ Cloning
    /\ gitCheckoutNotifier("clone")

\* git_clone returns and the closure ends.
cloneReturns ==
    /\ Cloning
    /\ libraryReturns("clone")

InitClone == InitTasks(CloneTasks, "clone") /\ NoGit(CloneTasks) /\ NoInstall /\ NoRest

NextClone ==
    \/ reportStarted("clone")
    \/ cloneStatus
    \/ cloneTransferProgress
    \/ cloneCheckoutProgress
    \/ callbackResumes("clone")
    \/ cloneReturns
    \/ reportStep("clone")

SpecClone == InitClone /\ [][NextClone]_vars

\* The places of a status message among the events a watcher was told.
StatusAt(lg, message) ==
    {i \in 1..Len(lg) : lg[i].sig = "status" /\ lg[i].msg = message}

\* C12: during a clone the phase of the payload moves only forward, Initial
\* -> Fetching -> CheckingOut: once it is CheckingOut it never is Fetching
\* again, and no "Fetching..." status follows a "Checking out..." status.
C12_PhaseMovesForward ==
    /\ [][payload["clone"] = "CheckingOut" => payload'["clone"] # "Fetching"]_vars
    /\ [](\A i \in StatusAt(log["clone"], "Checking out...") :
            \A j \in StatusAt(log["clone"], "Fetching...") : j < i)

(***************************************************************************)
(* GitRepo::credentialsCallback.  The git library calls it for every       *)
(* authentication challenge with the credential types it allows; the       *)
(* callback asks the registered broker and turns its response into the     *)
(* library's protocol: 0 and a credential, a positive value (try another   *)
(* type) or GIT_EUSER (abort).                                             *)
(***************************************************************************)
GIT_EUSER == -7

\* The credential types of the library and the query type each is passed on
\* as; GIT_CREDTYPE_SSH_MEMORY is not passed on.
CredTypes ==
    {"GIT_CREDTYPE_USERPASS_PLAINTEXT", "GIT_CREDTYPE_SSH_KEY",
     "GIT_CREDTYPE_SSH_CUSTOM", "GIT_CREDTYPE_DEFAULT",
     "GIT_CREDTYPE_SSH_INTERACTIVE", "GIT_CREDTYPE_USERNAME",
     "GIT_CREDTYPE_SSH_MEMORY"}
QueryType ==
    [GIT_CREDTYPE_DEFAULT |-> "Default",
     GIT_CREDTYPE_USERNAME |-> "Username",
     GIT_CREDTYPE_USERPASS_PLAINTEXT |-> "UsernamePassword",
     GIT_CREDTYPE_SSH_CUSTOM |-> "SSHCustom",
     GIT_CREDTYPE_SSH_INTERACTIVE |-> "SSHInteractive",
     GIT_CREDTYPE_SSH_KEY |-> "SSHKey"]
GitCredentialQuery(allowedTypes) ==
    [types |-> {QueryType[t] : t \in allowedTypes \cap DOMAIN QueryType}]

\* The responses of a broker.
Credentials == {"cred1", "cred2"}
GitCredentialResponse(cred) == [cred |-> cred, error |-> FALSE]
createInvalid == GitCredentialResponse("null")
createError == [cred |-> "null", error |-> TRUE]
Responses == {createInvalid, createError} \cup
             {GitCredentialResponse(c) : c \in Credentials}
result(r) == r.cred
isError(r) == r.error

\* The return value with the two answers to a response without credential
\* exchanged.
credentialsReturnSwapped(r) ==
    IF result(r) = "null" THEN (IF isError(r) THEN 1 ELSE GIT_EUSER) ELSE 0

\* The return value of credentialsCallback.
credentialsReturn(r) ==
    IF result(r) = "null" THEN (IF isError(r) THEN GIT_EUSER ELSE 1) ELSE 0

\* One challenge: the query is built, the broker is called with it, and its
\* response decides *out and the return value.
credentialsCallback ==
    /\ challenges < MaxChallenges
    /\ challenges' = challenges + 1
    /\ \E allowedTypes \in SUBSET CredTypes, r \in Responses :
          /\ query' = GitCredentialQuery(allowedTypes)
          /\ brokerCalls' = brokerCalls + 1
          /\ response' = r
          /\ out' = IF result(r) = "null" THEN "unwritten" ELSE result(r)
          /\ ret' = credentialsReturn(r)
    /\ UNCHANGED notCred

InitCred == NoCred /\ NoSources /\ NoCheck /\ NoInit /\ NoParse /\ NoInstall /\ NoTasks

NextCred == credentialsCallback

SpecCred == InitCred /\ [][NextCred]_vars

\* C13: credentialsCallback calls the broker exactly once per challenge; a
\* Valid response gives 0 and the credential in *out, an Invalid one a
\* positive value and *out unwritten, an Error one the negative code
\* GIT_EUSER and *out unwritten.
C13_BrokerResponseMapped ==
    /\ brokerCalls = challenges
    /\ challenges > 0 =>
          /\ response.cred # "null" => ret = 0 /\ out = response.cred
          /\ response = createInvalid => ret > 0 /\ out = "unwritten"
          /\ response = createError =>
                ret = GIT_EUSER /\ ret < 0 /\ out = "unwritten"

\* The second challenge was answered with Error after the library had asked
\* for a user name and password.
C13_Witness ==
    /\ challenges = 2
    /\ brokerCalls = 2
    /\ "UsernamePassword" \in query.types
    /\ response = createError
    /\ ret = GIT_EUSER

\* The last notification of a watcher, if a step added one.
Told(w) ==
    IF Len(log'[w]) > Len(log[w]) THEN {log'[w][Len(log'[w])].sig} ELSE {}

\* C14: progress and status are updated only before termination: once the
\* state of a task is Finished, Canceled or Exception no step changes its
\* stored progress or status or tells its watcher a progress or a status.
C14_NoProgressAfterTermination ==
    [][\A t \in DOMAIN d : Terminal(d[t].state) =>
          /\ d'[t].progressCurrent = d[t].progressCurrent
          /\ d'[t].progressTotal = d[t].progressTotal
          /\ d'[t].status = d[t].status
          /\ Told(t) \cap {"progress", "status"} = {}]_vars

\* C15: the install tasks are issued in the order of the package arguments,
\* each with the group and the configuration of the invocation, and at most
\* one of them has not terminated: the next install is never issued before
\* the one before it has terminated.
C15_InstallsInOrder ==
    /\ Len(issued) <= Len(args)
    /\ \A k \in 1..Len(issued) :
          /\ queryPackage(db, args[k]).ok
          /\ issued[k] = queryPackage(db, args[k]).pkg
          /\ issuedWith[k] = [group |-> group, config |-> config]
    /\ Len(issuedWith) = Len(issued)
    /\ Len(installOk) \in {Len(issued), Len(issued) - 1}
    /\ Len(installOk) < Len(issued) => ipc = "awaitTerminal"

\* Two different packages, the second install issued and not yet terminated,
\* with a group and a configuration given.
C15_Witness ==
    /\ Len(issued) = 2
    /\ issued[1] # issued[2]
    /\ Len(installOk) = 1
    /\ group = "dev"
    /\ config # <<>>

(***************************************************************************)
(* State::listSources, the handler of `sources list --database=<scope>`.   *)
(* output(type, force) opens the database and writes its header and its    *)
(* sources; a database that is not there ends the command with an          *)
(* exception when force is set and is passed over otherwise.               *)
(***************************************************************************)
\* A source that has never been updated has this lastUpdated.
Never == 0

SourceNames == {"origin", "mirror"}
Source(name, lastUpdated) == [name |-> name, lastUpdated |-> lastUpdated]

\* What a database can hold when the command starts.
SourceLists ==
    {<<>>, <<Source("origin", 1)>>, <<Source("mirror", Never), Source("origin", 1)>>}

\* The calls of output with `sources list --database=user` not going on to
\* the system database.
listPlanUserOnly(database) ==
    <<[type |-> database, force |-> TRUE]>>
    \o (IF database = "project"
        THEN <<[type |-> "user", force |-> FALSE], [type |-> "system", force |-> FALSE]>>
        ELSE <<>>)

\* The calls of output that listSources makes, in order.
listPlan(database) ==
    <<[type |-> database, force |-> TRUE]>>
    \o (IF database = "project"
        THEN <<[type |-> "user", force |-> FALSE], [type |-> "system", force |-> FALSE]>>
        ELSE <<>>)
    \o (IF database = "user" THEN <<[type |-> "system", force |-> FALSE]>> ELSE <<>>)

\* The lines output writes for a database.
Header(type) == [kind |-> "header", text |-> type, lastUpdated |-> Never]
SourceLine(src) == [kind |-> "source", text |-> src.name, lastUpdated |-> src.lastUpdated]
EmptyLine == [kind |-> "empty", text |-> "", lastUpdated |-> Never]
outputLines(type) ==
    <<Header(type)>>
    \o [k \in 1..Len(sources[type]) |-> SourceLine(sources[type][k])]
    \o (IF sources[type] = <<>> THEN <<EmptyLine>> ELSE <<>>)

\* listSources is entered.
listSources ==
    /\ cmd = "list"
    /\ todo = <<>>
    /\ shown = <<>>
    /\ todo' = listPlan(scope)
    /\ cmd' = "listing"
    /\ UNCHANGED <<scope, available, sources, shown, sthrown, now, updatedOk,
                   invocations>>
    /\ UNCHANGED notSrc

\* The next call of output.
output ==
    /\ cmd = "listing"
    /\ todo # <<>>
    /\ LET o == Head(todo)
       IN IF o.type \notin available
          THEN IF o.force
               THEN /\ sthrown' = "Database does not exists and unable to create it"
                    /\ cmd' = "done"
                    /\ todo' = <<>>
                    /\ UNCHANGED shown
               ELSE /\ todo' = Tail(todo)
                    /\ UNCHANGED <<shown, sthrown, cmd>>
          ELSE /\ shown' = shown \o outputLines(o.type)
               /\ todo' = Tail(todo)
               /\ UNCHANGED <<sthrown, cmd>>
    /\ UNCHANGED <<scope, available, sources, now, updatedOk, invocations>>
    /\ UNCHANGED notSrc

\* listSources returns.
listReturns ==
    /\ cmd = "listing"
    /\ todo = <<>>
    /\ cmd' = "done"
    /\ UNCHANGED <<scope, available, sources, todo, shown, sthrown, now, updatedOk,
                   invocations>>
    /\ UNCHANGED notSrc

InitList ==
    /\ NoCred /\ NoCheck /\ NoInit /\ NoParse /\ NoInstall /\ NoTasks
    /\ cmd = "list"
    /\ scope \in DbTypes
    /\ available \in SUBSET DbTypes
    /\ sources \in [DbTypes -> SourceLists]
    /\ todo = <<>>
    /\ shown = <<>>
    /\ sthrown = "none"
    /\ now = 0
    /\ updatedOk = {}
    /\ invocations = 0

NextList ==
    \/ listSources
    \/ output
    \/ listReturns

SpecList == InitList /\ [][NextList]_vars

\* The databases whose header was written, in order.
ShownDatabases ==
    LET headers == SelectSeq(shown, LAMBDA l : l.kind = "header")
    IN [k \in 1..Len(headers) |-> headers[k].text]

\* The databases the command is to show for a scope, outermost last.
Visible ==
    [project |-> <<"project", "user", "system">>,
     user |-> <<"user", "system">>,
     system |-> <<"system">>]

\* C16: `sources list` shows project, user, system for --database=project,
\* user, system for user and system alone for system, in this order; the
\* requested database being unavailable is an error, an unavailable outer
\* database is left out and the command does not fail.
C16_SourcesListScopes ==
    cmd = "done" =>
        IF scope \in available
        THEN /\ sthrown = "none"
             /\ ShownDatabases = SelectSeq(Visible[scope], LAMBDA t : t \in available)
        ELSE /\ sthrown # "none"
             /\ ShownDatabases = <<>>

\* --database=project with the user database unavailable: project and system
\* are shown.
C16_Witness ==
    /\ cmd = "done"
    /\ scope = "project"
    /\ available = {"project", "system"}
    /\ ShownDatabases = <<"project", "system">>
    /\ sthrown = "none"

(***************************************************************************)
(* State::addSource and State::updateSources, the handlers of `sources     *)
(* add <name> <url>` and `sources update [names]`, run one after another   *)
(* on the project database.  The wall clock advances between commands.     *)
(***************************************************************************)
ErrNoDatabase == "Database does not exists and unable to create it"

\* The names of the sources of a database, in order.
namesOf(list) == [k \in 1..Len(list) |-> list[k].name]
Registered(list) == {list[k].name : k \in 1..Len(list)}

\* A command is invoked.
invoke ==
    /\ cmd \in {"idle", "done"}
    /\ invocations < MaxCommands
    /\ invocations' = invocations + 1
    /\ now' = now + 1
    /\ cmd' \in {"add", "update"}
    /\ sthrown' = "none"
    /\ todo' = <<>>
    /\ UNCHANGED <<scope, available, sources, shown, updatedOk>>
    /\ UNCHANGED notSrc

\* addSource: the source is made from the url, named, its lastUpdated is set
\* and it is registered; registering a name a second time fails.
addSource ==
    /\ cmd = "add"
    /\ cmd' = "done"
    /\ IF scope \notin available
       THEN /\ sthrown' = ErrNoDatabase
            /\ UNCHANGED sources
       ELSE \E name \in SourceNames :
               IF name \in Registered(sources[scope])
               THEN /\ sthrown' = "SourceAlreadyRegistered"
                    /\ UNCHANGED sources
               ELSE /\ sources' = [sources EXCEPT ![scope] = Append(@, Source(name, now))]
                    /\ UNCHANGED sthrown
    /\ UNCHANGED <<scope, available, todo, shown, now, updatedOk, invocations>>
    /\ UNCHANGED notSrc

\* updateSources is entered: the sources to update are those named, or all.
updateSources ==
    /\ cmd = "update"
    /\ IF scope \notin available
       THEN /\ sthrown' = ErrNoDatabase
            /\ cmd' = "done"
            /\ UNCHANGED todo
       ELSE /\ \/ todo' = namesOf(sources[scope])
               \/ \E name \in Registered(sources[scope]) : todo' = <<name>>
            /\ cmd' = "updating"
            /\ UNCHANGED sthrown
    /\ UNCHANGED <<scope, available, sources, shown, now, updatedOk, invocations>>
    /\ UNCHANGED notSrc

\* The source with its lastUpdated set.
setLastUpdated(list, name, time) ==
    [k \in 1..Len(list) |->
        IF list[k].name = name THEN Source(name, time) ELSE list[k]]

\* awaitTerminal(source->update()) for the next source: the update succeeds
\* and sets lastUpdated, or fails, which leaves the handler.
update ==
    /\ cmd = "updating"
    /\ todo # <<>>
    /\ \/ /\ sources' = [sources EXCEPT ![scope] = setLastUpdated(@, Head(todo), now)]
          /\ updatedOk' = updatedOk \cup {Head(todo)}
          /\ todo' = Tail(todo)
          /\ UNCHANGED <<cmd, sthrown>>
       \/ /\ sthrown' = "update failed"
          /\ cmd' = "done"
          /\ UNCHANGED <<sources, updatedOk, todo>>
    /\ UNCHANGED <<scope, available, shown, now, invocations>>
    /\ UNCHANGED notSrc

\* updateSources returns.
updateReturns ==
    /\ cmd = "updating"
    /\ todo = <<>>
    /\ cmd' = "done"
    /\ UNCHANGED <<scope, available, sources, todo, shown, sthrown, now, updatedOk,
                   invocations>>
    /\ UNCHANGED notSrc

InitSources ==
    /\ NoCred /\ NoCheck /\ NoInit /\ NoParse /\ NoInstall /\ NoTasks
    /\ cmd = "idle"
    /\ scope \in DbTypes
    /\ available \in {{}, DbTypes}
    /\ sources = [t \in DbTypes |-> <<>>]
    /\ todo = <<>>
    /\ shown = <<>>
    /\ sthrown = "none"
    /\ now = 0
    /\ updatedOk = {}
    /\ invocations = 0

NextSources ==
    \/ invoke
    \/ addSource
    \/ updateSources
    \/ update
    \/ updateReturns

SpecSources == InitSources /\ [][NextSources]_vars

\* The lastUpdated of a registered source.
lastUpdatedOf(list, name) ==
    LET k == CHOOSE k \in 1..Len(list) : list[k].name = name
    IN list[k].lastUpdated

\* C17: the lastUpdated of a source never decreases, it changes only in a
\* step that is a successful update of that source, which sets it to the
\* time of the step, and so a source that no update has succeeded for has
\* never had it set.
C17_LastUpdatedMonotonic ==
    /\ [][\A name \in Registered(sources[scope]) \cap Registered(sources'[scope]) :
            LET old == lastUpdatedOf(sources[scope], name)
                new == lastUpdatedOf(sources'[scope], name)
            IN /\ old <= new
               /\ old # new =>
                     /\ cmd = "updating" /\ todo # <<>> /\ Head(todo) = name
                     /\ name \in updatedOk'
                     /\ new = now]_vars
    /\ [](\A name \in Registered(sources[scope]) :
            lastUpdatedOf(sources[scope], name) # Never => name \in updatedOk)

(***************************************************************************)
(* GitException::checkAndThrow, applied to the error code a call of the    *)
(* git library returned, as in checkAndThrow(git_remote_fetch(...)).  The  *)
(* library has recorded the message of its last error.                     *)
(***************************************************************************)
Codes == (0 - MaxCode)..MaxCode
Messages == {"authentication required", "reference not found", "network unreachable"}

\* GitException(error, id): the exception with its message and its code.
GitException(message, id) == [type |-> "GitException", message |-> message, error |-> id]

\* checkAndThrow returned.
Nothing == [type |-> "nothing", message |-> "", error |-> 0]

\* checkAndThrow(error) is called.
checkAndThrowCall ==
    /\ raised = NotChecked
    /\ raised' = IF checkAndThrow(gitError)
                 THEN GitException(lastError, gitError)
                 ELSE Nothing
    /\ UNCHANGED <<gitError, lastError>>
    /\ UNCHANGED notExc

InitCheck ==
    /\ NoCred /\ NoSources /\ NoInit /\ NoParse /\ NoInstall /\ NoTasks
    /\ gitError \in Codes
    /\ lastError \in Messages
    /\ raised = NotChecked

NextCheck == checkAndThrowCall

SpecCheck == InitCheck /\ [][NextCheck]_vars

\* C18: checkAndThrow(code) raises exactly when code is negative; what it
\* raises is a GitException with that code and the last error message of the
\* library; for code >= 0 it returns and raises nothing.
C18_ChecksNegativeCodes ==
    raised.type # "unchecked" =>
        IF gitError < 0
        THEN raised = [type |-> "GitException", message |-> lastError,
                       error |-> gitError]
        ELSE raised.type = "nothing"

\* A negative code was checked: GIT_EUSER, with its message.
C18_Witness ==
    /\ raised.type = "GitException"
    /\ gitError = GIT_EUSER
    /\ raised.error = GIT_EUSER
    /\ raised.message = "authentication required"

(***************************************************************************)
(* GitRepo::init(dir), a task whose closure creates the directory, makes   *)
(* the GitRepo, has the library initialise the repository and returns the  *)
(* GitRepo.                                                                *)
(***************************************************************************)
InitRepoTasks == {"init"}
Dirs == {"/work/a", "/work/b", "/ro/c"}

\* QDir::mkpath: the directory is there afterwards (it was, or was created).
mkpath(path) == path \in exists \/ path \in creatable

\* The closure going on whatever mkpath returned.
initThrowsNever(made) == FALSE

\* if (!dir.mkpath(...)) throw
initThrows(made) == ~made

\* The closure ends with an exception, which the worker reports.
initRaise(message) ==
    /\ Enter("init", "init", OwnCall("exception", 0, 0, message))
    /\ wpc' = [wpc EXCEPT !["init"] = "terminating"]
    /\ ended' = [ended EXCEPT !["init"] = "threw"]
    /\ initPc' = "ended"

\* The directory is created, or the closure throws.
initMkpath ==
    /\ Idle("init")
    /\ initPc = "mkpath"
    /\ IF initThrows(mkpath(dir))
       THEN /\ initRaise("Unable to create directory to init")
            /\ UNCHANGED exists
       ELSE /\ initPc' = "init"
            /\ exists' = exists \cup ({dir} \cap creatable)
            /\ UNCHANGED <<d, applied, call, wpc, ended>>
    /\ UNCHANGED <<log, caught, reports, late, dir, creatable, initCalled, repo>>
    /\ UNCHANGED <<installVars, gitVars, credVars, srcVars, excVars, parVars>>

\* git_repository_init_ext is called through GitResource::create, which
\* throws when the library reports an error.
initRepository ==
    /\ Idle("init")
    /\ initPc = "init"
    /\ initCalled' = TRUE
    /\ \E code \in ReturnCodes :
          IF checkAndThrow(code)
          THEN initRaise("init")
          ELSE /\ initPc' = "return"
               /\ UNCHANGED <<d, applied, call, wpc, ended>>
    /\ UNCHANGED <<log, caught, reports, late, dir, exists, creatable, repo>>
    /\ UNCHANGED <<installVars, gitVars, credVars, srcVars, excVars, parVars>>

\* return repo.release(): the worker reports the task finished.
initReturns ==
    /\ Idle("init")
    /\ initPc = "return"
    /\ repo' = dir
    /\ initPc' = "ended"
    /\ Enter("init", "init", OwnCall("finished", 0, 0, ""))
    /\ wpc' = [wpc EXCEPT !["init"] = "terminating"]
    /\ ended' = [ended EXCEPT !["init"] = "returned"]
    /\ UNCHANGED <<log, caught, reports, late, dir, exists, creatable, initCalled>>
    /\ UNCHANGED <<installVars, gitVars, credVars, srcVars, excVars, parVars>>

InitRepo ==
    /\ InitTasks(InitRepoTasks, "init") /\ NoGit(InitRepoTasks) /\ NoInstall
    /\ NoCred /\ NoSources /\ NoCheck /\ NoParse
    /\ dir \in Dirs
    /\ exists \in SUBSET Dirs
    /\ creatable \in SUBSET (Dirs \ exists)
    /\ initPc = "mkpath"
    /\ initCalled = FALSE
    /\ repo = "none"

NextRepo ==
    \/ reportStarted("init")
    \/ initMkpath
    \/ initRepository
    \/ initReturns
    \/ reportStep("init")

SpecRepo == InitRepo /\ [][NextRepo]_vars

\* C19: when the directory cannot be created, init attempts no repository
\* initialisation, returns no GitRepo, and its future, once terminated, is
\* in the Exception state (never Finished).
C19_InitFailsWithoutDirectory ==
    ~mkpath(dir) =>
        /\ ~initCalled
        /\ repo = "none"
        /\ d["init"].state # "Finished"
        /\ wpc["init"] = "done" =>
              /\ d["init"].state = "Exception"
              /\ d["init"].exception = "Unable to create directory to init"

\* init of a directory that cannot be created has terminated.
C19_Witness ==
    /\ initPc = "ended"
    /\ ~mkpath(dir)
    /\ wpc["init"] = "done"
    /\ d["init"].state = "Exception"

(***************************************************************************)
(* CommandLine::Parser::parse.  An argument is kept as the sequence of its *)
(* lexemes: <<"sources">>, <<"--">>, <<"--", "database", "=", "user">>,    *)
(* <<"-", "h", "V">> (the cluster -hV).  The commands, options and         *)
(* positional arguments are those of a parser built like the program's:    *)
(* ralph [--help] [--verbose]                                              *)
(*       { sources [--database=..] { list | add <name> <url> }             *)
(*       | install [--group=..] <packages...> { extra | more <m> }         *)
(*       | opt [<a>] { req <b> | many [<c>...] } }, alias sl.              *)
(* more, req and many are declared against the rules for positional        *)
(* arguments: a multi argument that is not the last, a required argument   *)
(* after an optional one, an optional argument before a multi one.         *)
(***************************************************************************)
\* QString(): the null string.
Null == "<null>"

Option(names, hasArgument, required, defaultValue, earlyExit, allowedValues) ==
    [names |-> names, hasArgument |-> hasArgument, isArgumentRequired |-> required,
     defaultValue |-> defaultValue, isEarlyExit |-> earlyExit,
     allowedValues |-> allowedValues]

PositionalArgument(name, multi, optional) ==
    [name |-> name, isMulti |-> multi, isOptional |-> optional]

helpOption == Option(<< <<"help">>, <<"h">> >>, FALSE, FALSE, Null, TRUE, {})
databaseOption ==
    Option(<< <<"database">>, <<"d">> >>, TRUE, TRUE, "project", FALSE, DbTypes)
groupOption == Option(<< <<"group">>, <<"g">> >>, TRUE, TRUE, Null, FALSE, {})
verboseOption == Option(<< <<"verbose">>, <<"V">> >>, FALSE, FALSE, Null, FALSE, {})

NoAliases == [a \in {} |-> <<>>]
Command(name, opts, declared, subcommands, aliases) ==
    [name |-> name, options |-> opts, arguments |-> declared,
     subcommands |-> subcommands, commandAliases |-> aliases]

Commands ==
    [ralph |-> Command("ralph", <<helpOption, verboseOption>>, <<>>,
                       {"sources", "install", "opt"},
                       [a \in {"sl"} |-> <<"sources", "list">>]),
     sources |-> Command("sources", <<databaseOption>>, <<>>, {"list", "add"}, NoAliases),
     list |-> Command("list", <<>>, <<>>, {}, NoAliases),
     add |-> Command("add", <<>>,
                     <<PositionalArgument("name", FALSE, FALSE),
                       PositionalArgument("url", FALSE, FALSE)>>, {}, NoAliases),
     install |-> Command("install", <<groupOption>>,
                         <<PositionalArgument("packages", TRUE, FALSE)>>,
                         {"extra", "more"}, NoAliases),
     extra |-> Command("extra", <<>>, <<>>, {}, NoAliases),
     more |-> Command("more", <<>>, <<PositionalArgument("m", FALSE, FALSE)>>,
                      {}, NoAliases),
     opt |-> Command("opt", <<>>, <<PositionalArgument("a", FALSE, TRUE)>>,
                     {"req", "many"}, NoAliases),
     req |-> Command("req", <<>>, <<PositionalArgument("b", FALSE, FALSE)>>,
                     {}, NoAliases),
     many |-> Command("many", <<>>, <<PositionalArgument("c", TRUE, TRUE)>>,
                      {}, NoAliases)]

\* argv[0].
ApplicationName == <<"ralph">>

\* The arguments a command line is made of.
Tokens ==
    {<<"sources">>, <<"list">>, <<"add">>, <<"install">>, <<"sl">>, <<"foo">>,
     <<"extra">>, <<"more">>, <<"opt">>, <<"req">>, <<"many">>,
     <<"--">>, <<"--", "verbose">>,
     <<"--", "database">>, <<"--", "database", "=", "user">>,
     <<"--", "database", "=", "x">>,
     <<"--", "group", "=", "dev">>, <<"--", "help">>, <<"--", "help", "=", "x">>,
     <<"--", "bogus">>, <<"--", "=", "x">>,
     <<"-", "h">>, <<"-", "d", "=", "user">>, <<"-", "h", "V">>}

\* QString::startsWith('-') and startsWith("--").
startsWithDash(item) == item[1] \in {"-", "--"}
startsWithDashDash(item) == item[1] = "--"

\* The text of an argument that is one word.
text(item) == item[1]

\* Where the "=" of an option is (0 when it has none).
equalsAt(item) ==
    IF \E k \in 1..Len(item) : item[k] = "="
    THEN CHOOSE k \in 1..Len(item) : item[k] = "=" /\ \A j \in 1..(k - 1) : item[j] # "="
    ELSE 0

\* doubleOptionExpression, ^--(?<name>[A-Za-z0-9-\.]+)(?<valuecont>=(?<value>.*))?$,
\* and singleOptionExpression, ^-(?<names>[A-Za-z0-9]+)(?<valuecont>=(?<value>.*))?$:
\* whether the argument matches, and the groups captured.
hasMatch(item) ==
    /\ Len(item) >= 2
    /\ item[2] # "="
    /\ item[1] = "--" => equalsAt(item) \in {0, 3}
matchNames(item) ==
    SubSeq(item, 2, IF equalsAt(item) = 0 THEN Len(item) ELSE equalsAt(item) - 1)
matchHasValue(item) == equalsAt(item) # 0
matchValue(item) ==
    IF equalsAt(item) = 0 THEN Null
    ELSE IF equalsAt(item) = Len(item) THEN "" ELSE item[equalsAt(item) + 1]

\* QHash::insert.
Put(hash, key, value) ==
    [k \in DOMAIN hash \cup {key} |-> IF k = key THEN value ELSE hash[k]]

\* What parse has built so far: its locals.
Locals ==
    [options |-> options, positionals |-> positionals,
     currentCommand |-> currentCommand, result |-> parsed, it |-> it,
     haveStartedPositionals |-> haveStartedPositionals, error |-> "none",
     handled |-> <<>>]

Throw(st, exception) == [st EXCEPT !.error = exception]

\* Nothing is checked.
checkPositionalsNever(declared) == "none"

\* Command::checkPositionals: the exception it throws ("none" when none).
checkPositionals(declared) ==
    LET n == Len(declared)
        exceptLast == SubSeq(declared, 1, n - 1)
    IN IF n <= 1 THEN "none"
       ELSE IF \E k \in 1..(n - 1) : exceptLast[k].isMulti THEN "Build"
       ELSE IF declared[n].isMulti /\ \E k \in 1..(n - 1) : exceptLast[k].isOptional
            THEN "Build"
       ELSE IF \E j, k \in 1..n : j < k /\ declared[j].isOptional /\ ~declared[k].isOptional
            THEN "Build"
       ELSE "none"

\* The options of a command under each of their names.
RECURSIVE insertNames(_, _, _)
insertNames(hash, option, k) ==
    IF k > Len(option.names) THEN hash
    ELSE insertNames(Put(hash, option.names[k], option), option, k + 1)

RECURSIVE insertOptions(_, _, _)
insertOptions(hash, opts, k) ==
    IF k > Len(opts) THEN hash
    ELSE insertOptions(insertNames(hash, opts[k], 1), opts, k + 1)

\* nextCommand: the command's options and positionals are added to those
\* known, the positionals are checked, and the command chain grows.
nextCommand(st, command) ==
    IF st.error # "none" THEN st
    ELSE LET declared == st.positionals \o command.arguments
             st1 == [st EXCEPT !.options = insertOptions(@, command.options, 1),
                               !.positionals = declared]
         IN IF checkPositionals(declared) # "none"
            THEN Throw(st1, checkPositionals(declared))
            ELSE [st1 EXCEPT !.currentCommand = command.name,
                             !.result.commandChain = Append(@, command.name)]

\* resolveAlias: the commands of the path are entered one after another.
RECURSIVE resolveAlias(_, _)
resolveAlias(st, path) ==
    IF path = <<>> \/ st.error # "none" THEN st
    ELSE resolveAlias(nextCommand(st, Commands[Head(path)]), Tail(path))

\* handleOption.  withIt: the iterator is passed, so the argument of the
\* option may be taken from the next item.
handleOption(st0, name, value, hasValue, withIt) ==
    IF st0.error # "none" THEN st0
    ELSE LET st == [st0 EXCEPT !.handled = Append(@, name)] IN
    IF name \notin DOMAIN st.options THEN Throw(st, "UnknownOption")
    ELSE LET option == st.options[name]
             first == option.names[1]
         IN IF hasValue /\ ~option.hasArgument THEN Throw(st, "UnexpectedArgument")
            ELSE IF ~hasValue /\ option.hasArgument /\ option.isArgumentRequired
            THEN IF withIt /\ st.it < Len(arguments)
                    /\ ~startsWithDash(arguments[st.it + 1])
                 THEN [st EXCEPT !.result.options =
                                     Put(@, first, text(arguments[st.it + 1])),
                                 !.it = st.it + 1]
                 ELSE Throw(st, "MissingRequiredArgument")
            ELSE [st EXCEPT !.result.options = Put(@, first, value)]

\* The number of positional arguments bound so far.
boundCount(hash) ==
    Cardinality(UNION {{<<k, j>> : j \in 1..Len(hash[k])} : k \in DOMAIN hash})

\* The last positional keeps only the newest item.
bindOneOverwriting(hash, declared, arg) ==
    IF Len(declared) = Cardinality(DOMAIN hash)
    THEN Put(hash, declared[Len(declared)].name, <<arg>>)
    ELSE Put(hash, declared[Cardinality(DOMAIN hash) + 1].name, <<arg>>)

\* handleArguments, the body of its loop: the item goes to the next
\* positional not yet bound, or to the last one when all are.
bindOne(hash, declared, arg) ==
    IF Len(declared) = Cardinality(DOMAIN hash)
    THEN [hash EXCEPT ![declared[Len(declared)].name] = Append(@, arg)]
    ELSE Put(hash, declared[Cardinality(DOMAIN hash) + 1].name, <<arg>>)

\* handleArguments: the loop that binds the items to the positionals.
RECURSIVE bind(_, _, _)
bind(hash, declared, items) ==
    IF items = <<>> THEN hash
    ELSE bind(bindOne(hash, declared, Head(items)), declared, Tail(items))

handleArguments(st, items) ==
    IF st.error # "none" THEN st
    ELSE LET availablePositionals == boundCount(st.result.arguments) + Len(items)
             haveMulti == st.positionals # <<>>
                          /\ st.positionals[Len(st.positionals)].isMulti
         IN IF availablePositionals > Len(st.positionals) /\ ~haveMulti
            THEN Throw(st, "ToManyPositionals")
            ELSE [st EXCEPT !.result.arguments = bind(@, st.positionals, items),
                            !.haveStartedPositionals = TRUE]

\* QString::remove(QChar(n)), which `items.remove(items.size() - 1)` calls:
\* every character whose code is n is removed.  The letters of a cluster are
\* of [A-Za-z0-9], whose codes are 48 and above, so none is removed from a
\* cluster of fewer than 49 letters.
remove(letters, n) == letters

\* The options of a cluster are handled one after another without value.
RECURSIVE handleLetters(_, _)
handleLetters(st, letters) ==
    IF letters = <<>> THEN st
    ELSE handleLetters(handleOption(st, <<Head(letters)>>, Null, FALSE, FALSE),
                       Tail(letters))

\* Nothing is taken from the iterator.
remainingNone(st) == <<>>

\* while (it.hasNext()) remaining.append(it.next()): the items not yet read.
remaining(st) == SubSeq(arguments, st.it + 1, Len(arguments))

\* The item names a subcommand of the current command, or one of its aliases.
namesSubcommand(st, item) ==
    Len(item) = 1 /\ text(item) \in Commands[st.currentCommand].subcommands
namesAlias(st, item) ==
    Len(item) = 1 /\ text(item) \in DOMAIN Commands[st.currentCommand].commandAliases

\* Commands are entered whatever has been bound.
mayEnterAlways(st) == TRUE

\* Subcommands and aliases are looked for until the first positional argument.
mayEnter(st) == ~st.haveStartedPositionals

\* One turn of the loop over the arguments.
parseOne(st, item) ==
    IF mayEnter(st) /\ namesSubcommand(st, item)
    THEN nextCommand(st, Commands[text(item)])
    ELSE IF mayEnter(st) /\ namesAlias(st, item)
    THEN resolveAlias(st, Commands[st.currentCommand].commandAliases[text(item)])
    ELSE IF item = <<"--">>
    THEN handleArguments([st EXCEPT !.it = Len(arguments)], remaining(st))
    ELSE IF startsWithDashDash(item)
    THEN IF ~hasMatch(item) THEN Throw(st, "MalformedOption")
         ELSE handleOption(st, matchNames(item), matchValue(item),
                           matchHasValue(item), TRUE)
    ELSE IF startsWithDash(item)
    THEN IF ~hasMatch(item) THEN Throw(st, "MalformedOption")
         ELSE LET items == matchNames(item)
                  last == remove(items, Len(items) - 1)
              IN handleOption(handleLetters(st, items), last, matchValue(item),
                              matchHasValue(item), TRUE)
    ELSE handleArguments(st, <<item>>)

\* The locals are stored; an exception ends parse.
Store(st, next) ==
    /\ options' = st.options
    /\ positionals' = st.positionals
    /\ currentCommand' = st.currentCommand
    /\ parsed' = st.result
    /\ it' = st.it
    /\ haveStartedPositionals' = st.haveStartedPositionals
    /\ perror' = st.error
    /\ handled' = st.handled
    /\ ppc' = IF st.error # "none" THEN "done" ELSE next

\* The list is filled with argv[i] for every i.
listOfEach(v) == v

\* process(argc, argv), its loop: list.append(QString::fromLocal8Bit(argv[0]))
\* for every i below argc.
listOf(v) == [i \in 1..Len(v) |-> v[1]]

\* process(int argc, char **argv): the list is built and handed to
\* process(const QStringList &), which hands it to parse.
processArgv ==
    /\ ppc = "process"
    /\ entry = "argv"
    /\ arguments' = listOf(argv)
    /\ ppc' = "start"
    /\ UNCHANGED <<it, parsed, currentCommand, options, positionals,
                   haveStartedPositionals, perror, handled, procVars>>
    /\ UNCHANGED notPar

\* process(const QStringList &arguments), called with the arguments of the
\* application: they are handed to parse.
processList ==
    /\ ppc = "process"
    /\ entry = "list"
    /\ arguments' = argv
    /\ ppc' = "start"
    /\ UNCHANGED <<it, parsed, currentCommand, options, positionals,
                   haveStartedPositionals, perror, handled, procVars>>
    /\ UNCHANGED notPar

\* parse is entered: nextCommand(*this), and the application name is passed.
parseStart ==
    /\ ppc = "start"
    /\ Store([nextCommand(Locals, Commands["ralph"]) EXCEPT !.it = 1], "items")
    /\ UNCHANGED <<arguments, procVars>>
    /\ UNCHANGED notPar

\* while (it.hasNext()): the next item is handled.
parseItem ==
    /\ ppc = "items"
    /\ it < Len(arguments)
    /\ Store(parseOne([Locals EXCEPT !.it = it + 1], arguments[it + 1]), "items")
    /\ UNCHANGED <<arguments, procVars>>
    /\ UNCHANGED notPar

\* The default is inserted whatever the result holds.
needsDefaultAlways(given, opt) ==
    opt.hasArgument /\ opt.defaultValue # Null

\* The condition under which the default of an option is inserted.
needsDefault(given, opt) ==
    /\ opt.names[1] \notin DOMAIN given
    /\ opt.hasArgument
    /\ opt.defaultValue # Null

\* The loop over the known options that inserts the defaults.
withDefaults(given, known) ==
    LET defaulted == {known[n] : n \in {m \in DOMAIN known : needsDefault(given, known[m])}}
    IN [k \in DOMAIN given \cup {o.names[1] : o \in defaulted} |->
          IF \E o \in defaulted : o.names[1] = k
          THEN (CHOOSE o \in defaulted : o.names[1] = k).defaultValue
          ELSE given[k]]

\* The loop over the arguments has ended: the defaults are inserted and the
\* Result is returned.
parseReturns ==
    /\ ppc = "items"
    /\ it = Len(arguments)
    /\ parsed' = [parsed EXCEPT !.options = withDefaults(@, options)]
    /\ ppc' = "done"
    /\ UNCHANGED <<arguments, it, currentCommand, options, positionals,
                   haveStartedPositionals, perror, handled, procVars>>
    /\ UNCHANGED notPar

\* How process ends: it returns a value, or std::exit is called.
Returned(code) == [kind |-> "returned", code |-> code]
Exited(code) == [kind |-> "exited", code |-> code]

\* The options declared with a callback (then), and those whose callback is
\* printHelp, which ends the process.
WithCallback == {<<"help">>, <<"verbose">>}
PrintsHelp == {<<"help">>}

\* Parser::printHelp: the help is printed and std::exit(0) is called.
printHelp == Exited(0)

\* What the parts of the parser have left alone when parse is over.
parseLocals == <<arguments, it, parsed, currentCommand, options, positionals,
                 haveStartedPositionals, handled, argv, entry>>

\* process: parse has returned the result and handle is called with it.
handleStart ==
    /\ ppc = "done"
    /\ perror = "none"
    /\ keys' = DOMAIN parsed.options
    /\ ppc' = "early"
    /\ UNCHANGED <<parseLocals, perror, called, outcome>>
    /\ UNCHANGED notPar

\* No callback is invoked before the positionals and the values are checked.
callsEarlyNever(opt) == FALSE

\* The callback of the option is invoked by the first loop of handle.
callsEarly(opt) == opt.isEarlyExit

\* handle, its first loop, over result.options().keys() in the order of the
\* hash: the callback of an early-exit option is invoked.
handleEarlyExit ==
    /\ ppc = "early"
    /\ \E key \in keys :
          LET opt == options[key]
              invoked == callsEarly(opt) /\ key \in WithCallback
          IN /\ keys' = keys \ {key}
             /\ called' = IF invoked THEN Append(called, <<"option", key>>) ELSE called
             /\ IF invoked /\ key \in PrintsHelp
                THEN outcome' = printHelp /\ ppc' = "ended"
                ELSE UNCHANGED <<outcome, ppc>>
    /\ UNCHANGED <<parseLocals, perror>>
    /\ UNCHANGED notPar

\* Result::hasArgument.
hasArgument(name) == name \in DOMAIN parsed.arguments

\* handle, its second loop: a positional argument that is neither bound nor
\* optional is missing.
missingPositional ==
    \E k \in 1..Len(positionals) :
        ~hasArgument(positionals[k].name) /\ ~positionals[k].isOptional

\* handle, between its first and its third loop: the positionals are checked.
handlePositionals ==
    /\ ppc = "early"
    /\ keys = {}
    /\ IF missingPositional
       THEN /\ perror' = "MissingPositionalArgument"
            /\ ppc' = "caught"
            /\ UNCHANGED keys
       ELSE /\ keys' = DOMAIN parsed.options
            /\ ppc' = "values"
            /\ UNCHANGED perror
    /\ UNCHANGED <<parseLocals, called, outcome>>
    /\ UNCHANGED notPar

\* handle, its third loop: the value of the option is not one of those allowed.
valueRejected(key) ==
    /\ options[key].allowedValues # {}
    /\ parsed.options[key] \notin options[key].allowedValues

\* handle, its third loop, over result.options().keys() in the order of the
\* hash: the value of the option is checked, and then the callback of an
\* option that is not early-exit is invoked.
handleValue ==
    /\ ppc = "values"
    /\ \E key \in keys :
          IF valueRejected(key)
          THEN /\ perror' = "InvalidOptionValue"
               /\ ppc' = "caught"
               /\ UNCHANGED <<keys, called>>
          ELSE /\ keys' = keys \ {key}
               /\ called' = IF ~options[key].isEarlyExit /\ key \in WithCallback
                             THEN Append(called, <<"option", key>>) ELSE called
               /\ UNCHANGED <<perror, ppc>>
    /\ UNCHANGED <<parseLocals, outcome>>
    /\ UNCHANGED notPar

\* handle, its last loop: the handlers of the commands of the chain are
\* called, the outermost first, and handle returns.
handleCommands ==
    /\ ppc = "values"
    /\ keys = {}
    /\ called' = called \o [k \in 1..Len(parsed.commandChain) |->
                                <<"command", parsed.commandChain[k]>>]
    /\ ppc' = "handled"
    /\ UNCHANGED <<parseLocals, perror, keys, outcome>>
    /\ UNCHANGED notPar

\* process, after handle: the help is printed when the command line held
\* nothing, and 0 is returned otherwise.
processReturns ==
    /\ ppc = "handled"
    /\ outcome' = IF /\ DOMAIN parsed.options = {}
                     /\ DOMAIN parsed.arguments = {}
                     /\ Len(parsed.commandChain) = 1
                  THEN printHelp
                  ELSE Returned(0)
    /\ ppc' = "ended"
    /\ UNCHANGED <<parseLocals, perror, called, keys>>
    /\ UNCHANGED notPar

\* process, its catch clauses: a BuildException makes it return -1; for any
\* other CommandLineException the help of the command chain is printed.
processCatches ==
    /\ \/ ppc = "done" /\ perror # "none"
       \/ ppc = "caught"
    /\ outcome' = IF perror = "Build" THEN Returned(-1) ELSE printHelp
    /\ ppc' = "ended"
    /\ UNCHANGED <<parseLocals, perror, called, keys>>
    /\ UNCHANGED notPar

InitParse ==
    /\ NoCred /\ NoSources /\ NoCheck /\ NoInit /\ NoInstall /\ NoTasks
    /\ argv \in {<<ApplicationName>> \o t : t \in {<<>>} \cup BoundedSeqs(Tokens, MaxTokens)}
    /\ entry \in {"argv", "list"}
    /\ arguments = <<>>
    /\ handled = <<>>
    /\ called = <<>>
    /\ keys = {}
    /\ outcome = Running
    /\ it = 0
    /\ parsed = NoResult
    /\ currentCommand = ""
    /\ options = <<>>
    /\ positionals = <<>>
    /\ haveStartedPositionals = FALSE
    /\ perror = "none"
    /\ ppc = "process"

NextParse ==
    \/ processArgv
    \/ processList
    \/ parseStart
    \/ parseItem
    \/ parseReturns
    \/ handleStart
    \/ handleEarlyExit
    \/ handlePositionals
    \/ handleValue
    \/ handleCommands
    \/ processReturns
    \/ processCatches

SpecParse == InitParse /\ [][NextParse]_vars

\* The items before the first "--" that name the option, by its long name
\* or by a letter of a cluster.
OptionItems(opt) ==
    {i \in 1..Len(arguments) :
        /\ \A j \in 1..i : arguments[j] # <<"--">>
        /\ startsWithDash(arguments[i])
        /\ hasMatch(arguments[i])
        /\ IF startsWithDashDash(arguments[i])
           THEN \E k \in 1..Len(opt.names) : opt.names[k] = matchNames(arguments[i])
           ELSE \E k \in 1..Len(opt.names) : \E l \in 1..Len(matchNames(arguments[i])) :
                    opt.names[k] = <<matchNames(arguments[i])[l]>>}

\* The value the item gives to the option it names: the one after "=", or
\* else the next item.
ValueGivenAt(i) ==
    IF matchHasValue(arguments[i]) THEN matchValue(arguments[i])
    ELSE IF i < Len(arguments) THEN text(arguments[i + 1])
    ELSE Null

\* The options with a default, of those declared on the selected command chain.
Defaulted ==
    {opt \in {options[n] : n \in DOMAIN options} :
        opt.hasArgument /\ opt.defaultValue # Null}

\* C20: after a successful parse, every option of the selected command chain
\* that takes an argument and has a default is in the result: with its default
\* when the command line did not give it, and with a value the command line
\* gave, never the default in its place, when it did.
C20_DefaultsFillMissingOptions ==
    (ppc = "done" /\ perror = "none") =>
        \A opt \in Defaulted :
            /\ opt.names[1] \in DOMAIN parsed.options
            /\ IF OptionItems(opt) = {}
               THEN parsed.options[opt.names[1]] = opt.defaultValue
               ELSE parsed.options[opt.names[1]] \in
                        {ValueGivenAt(i) : i \in OptionItems(opt)}

\* A parse of "sources list" has succeeded and the database is the default;
\* the options known are those of ralph and of sources.
C20_Witness ==
    /\ ppc = "done"
    /\ perror = "none"
    /\ parsed.commandChain = <<"ralph", "sources", "list">>
    /\ OptionItems(databaseOption) = {}
    /\ databaseOption \in Defaulted
    /\ parsed.options[<<"database">>] = "project"

\* The positional arguments of a result, in the order of their declaration.
RECURSIVE Flat(_, _)
Flat(hash, declared) ==
    IF declared = <<>> THEN <<>>
    ELSE (IF Head(declared).name \in DOMAIN hash THEN hash[Head(declared).name] ELSE <<>>)
         \o Flat(hash, Tail(declared))

\* C21: once the first positional argument is consumed, the command chain and
\* the current command no longer change, and an item that names a subcommand
\* or an alias of the current command, when parse goes on, is bound as the
\* next positional argument.
C21_NoSubcommandAfterPositional ==
    [][(ppc = "items" /\ haveStartedPositionals) =>
          /\ parsed'.commandChain = parsed.commandChain
          /\ currentCommand' = currentCommand
          /\ (/\ it < Len(arguments)
              /\ \/ namesSubcommand(Locals, arguments[it + 1])
                 \/ namesAlias(Locals, arguments[it + 1])
              /\ perror' = "none")
             => /\ Flat(parsed'.arguments, positionals')
                     = Append(Flat(parsed.arguments, positionals), arguments[it + 1])
                /\ options' = options
                /\ positionals' = positionals]_vars

\* "install foo extra" is parsed: extra, a subcommand of install, is the
\* second package.
C21_Witness ==
    /\ perror = "none"
    /\ haveStartedPositionals
    /\ parsed.commandChain = <<"ralph", "install">>
    /\ "extra" \in Commands[currentCommand].subcommands
    /\ "packages" \in DOMAIN parsed.arguments
    /\ parsed.arguments["packages"] = << <<"foo">>, <<"extra">> >>

\* C22: when parse reads a "--", every item after it becomes a positional
\* argument, in order, whatever it looks like: the command chain, the current
\* command and the options of the result stay as they are, and parse either
\* goes on with all of them bound or fails with ToManyPositionals.
C22_AfterDashDashAllPositional ==
    [][(ppc = "items" /\ it < Len(arguments) /\ arguments[it + 1] = <<"--">>) =>
          /\ perror' \in {"none", "ToManyPositionals"}
          /\ parsed'.commandChain = parsed.commandChain
          /\ parsed'.options = parsed.options
          /\ currentCommand' = currentCommand
          /\ perror' = "none" =>
                /\ it' = Len(arguments)
                /\ Flat(parsed'.arguments, positionals')
                     = Flat(parsed.arguments, positionals)
                         \o SubSeq(arguments, it + 2, Len(arguments))]_vars

\* "install -- --help" is parsed: --help is a package, and no option is set.
C22_Witness ==
    /\ perror = "none"
    /\ it = Len(arguments)
    /\ \E i \in 1..(Len(arguments) - 1) :
          /\ arguments[i] = <<"--">>
          /\ arguments[i + 1] = <<"--", "help">>
    /\ "packages" \in DOMAIN parsed.arguments
    /\ parsed.arguments["packages"] = << <<"--", "help">> >>
    /\ <<"help">> \notin DOMAIN parsed.options

\* The item is neither an option, nor "--", nor a command or alias that may
\* be entered: it is a positional argument.
IsPositional(item) ==
    /\ ~startsWithDash(item)
    /\ ~(~haveStartedPositionals
         /\ (namesSubcommand(Locals, item) \/ namesAlias(Locals, item)))

C26_ClusterHandledPerLetter ==
    [][(/\ ppc = "items"
        /\ it < Len(arguments)
        /\ startsWithDash(arguments[it + 1])
        /\ ~startsWithDashDash(arguments[it + 1])
        /\ hasMatch(arguments[it + 1])) =>
          LET letters == matchNames(arguments[it + 1])
              n == Len(letters)
          IN /\ Len(handled') <= n
             /\ \A k \in 1..Len(handled') : k <= n => handled'[k] = <<letters[k]>>
             /\ perror' = "none" =>
                   /\ Len(handled') = n
                   /\ matchHasValue(arguments[it + 1]) =>
                         parsed'.options[options[<<letters[n]>>].names[1]]
                            = matchValue(arguments[it + 1])]_vars

\* The three rules for the positional arguments of a command chain.
OnlyLastMulti(declared) ==
    \A k \in 1..(Len(declared) - 1) : ~declared[k].isMulti
NoOptionalBeforeMulti(declared) ==
    (declared # <<>> /\ declared[Len(declared)].isMulti) =>
        \A k \in 1..(Len(declared) - 1) : ~declared[k].isOptional
NoRequiredAfterOptional(declared) ==
    \A j, k \in 1..Len(declared) :
        (j < k /\ declared[j].isOptional) => declared[k].isOptional

\* C23: the positional arguments accumulated along the command chain satisfy
\* the three rules at every moment of a parse, unless a BuildException has
\* been thrown, which happens exactly when entering a command breaks one of
\* them; process then returns -1.
C23_PositionalsValidated ==
    /\ perror = "Build" <=>
          ~(/\ OnlyLastMulti(positionals)
            /\ NoOptionalBeforeMulti(positionals)
            /\ NoRequiredAfterOptional(positionals))
    /\ (perror = "Build" /\ ppc = "ended") => outcome = Returned(-1)

\* "opt many" was parsed: entering many put a multi argument after the
\* optional one of opt, and process has returned -1.
C23_Witness ==
    /\ perror = "Build"
    /\ ppc = "ended"
    /\ outcome = Returned(-1)
    /\ OnlyLastMulti(positionals)
    /\ NoRequiredAfterOptional(positionals)
    /\ ~NoOptionalBeforeMulti(positionals)

\* The exceptions that report a wrong use of the command line.
UsageErrors ==
    {"UnknownOption", "MalformedOption", "UnexpectedArgument",
     "MissingRequiredArgument", "ToManyPositionals", "MissingPositionalArgument",
     "InvalidOptionValue"}

\* C24: when the command line the program was started with was used wrongly,
\* the process does not end with exit status 0: process returns, and returns
\* another value than 0.
C24_UsageErrorNotSuccess ==
    (arguments = argv /\ perror \in UsageErrors /\ ppc = "ended") =>
        /\ outcome.kind = "returned"
        /\ outcome.code # 0

\* C25: the list process(argc, argv) hands to parse is argv, item by item.
C25_ArgvHandedInOrder ==
    (entry = "argv" /\ ppc # "process") =>
        /\ Len(arguments) = Len(argv)
        /\ \A i \in 1..Len(argv) : arguments[i] = argv[i]

\* The exceptions with which handle rejects a result.
Rejections == {"MissingPositionalArgument", "InvalidOptionValue"}

\* C27: when handle has rejected the result, the callbacks invoked so far are
\* those of early-exit options only: no command handler, and no callback of
\* an option that is not early-exit.
C27_NothingCalledBeforeRejection ==
    perror \in Rejections =>
        \A k \in 1..Len(called) :
            /\ called[k][1] = "option"
            /\ options[called[k][2]].isEarlyExit

\* The set options that are early-exit and have a callback.
EarlySet ==
    {key \in DOMAIN parsed.options : options[key].isEarlyExit /\ key \in WithCallback}

\* C28: once handle checks the positionals and the values, the callback of
\* every set early-exit option has been invoked; a parsed --help ends the
\* process through its callback, without any rejection, also when a required
\* positional is missing; and no callback is invoked twice.
C28_EarlyExitBeforeValidation ==
    /\ (ppc \in {"values", "caught", "handled"} \/ perror \in Rejections) =>
          \A key \in EarlySet : \E k \in 1..Len(called) : called[k] = <<"option", key>>
    /\ (/\ ppc = "ended"
        /\ perror \in {"none"} \cup Rejections
        /\ <<"help">> \in DOMAIN parsed.options) =>
          /\ perror = "none"
          /\ outcome = Exited(0)
          /\ called[Len(called)] = <<"option", <<"help">> >>
    /\ \A j, k \in 1..Len(called) : called[j] = called[k] => j = k

\* "sources add --help" was handled: the callback of --help was invoked and
\* ended the process, though name and url are missing.
C28_Witness ==
    /\ ppc = "ended"
    /\ perror = "none"
    /\ missingPositional
    /\ called = << <<"option", <<"help">> >> >>
    /\ outcome = Exited(0)

=============================================================================
